---- MODULE Spec2Model ----
(***************************************************************************)
(* A model of the TLP graph-document parser of src/src/lib.rs.             *)
(*                                                                         *)
(* The input text is a sequence of one-character strings.  A parser is an  *)
(* operator P(s, i): s is the text, i the cursor (the 1-based index of the *)
(* next unread character, Len(s)+1 at end of input).  It returns a record  *)
(*     [st |-> "ok" | "backtrack" | "assert", pos |-> cursor, val |-> v]   *)
(* "backtrack" is winnow's recoverable ErrMode::Backtrack, the only error  *)
(* the grammar raises itself; "assert" is the failure of winnow's          *)
(* infinite-loop check in `separated`/`repeat` (a panic in a debug build,  *)
(* an unrecoverable ErrMode::Cut in a release build).                      *)
(*                                                                         *)
(* Identifier values are kept below usize::MAX by the bounds on the input  *)
(* length, so dec_uint's overflow failure is outside the modelled inputs.  *)
(***************************************************************************)
EXTENDS Integers, Sequences, FiniteSets, TLC

VARIABLES
    input,      \* the text handed to the parser
    meant,      \* what the writer of the text put into it (its pieces)
    entry,      \* the parser function that was called ("none" before the call)
    out,        \* what the call returned
    expansion,  \* to_vec()/len() of the parsed identifier set, once taken
    warnings,   \* number of "[WARNING]" lines written by eprintln!
    pc,         \* position of the document assembler (inner_graph / from_str)
    cursor,     \* the assembler's cursor into input
    doc,        \* the Graph fields parsed so far
    label       \* StrContext::Label attached to a hard failure of the assembler

vars == <<input, meant, entry, out, expansion, warnings, pc, cursor, doc, label>>

(***************************************************************************)
(* Bounds of the model.                                                    *)
(***************************************************************************)
MaxIdLen == 6

MaxBlockIdLen == 4

MaxStrLen == 6

MaxHint == 3

MaxEdges == 2

MaxClusters == 5

MaxSections == 4

MaxOverrides == 3

MaxTermPieces == 2

MaxTermClusters == 3

(***************************************************************************)
(* Characters.                                                             *)
(***************************************************************************)
EOF == "<eof>"

DigitChars == {"0", "1", "2", "3", "4", "5", "6", "7", "8", "9"}

NonZeroDigitChars == DigitChars \ {"0"}

AlphaChars ==
    {"a", "b", "c", "d", "e", "f", "g", "h", "i", "j", "k", "l", "m",
     "n", "o", "p", "q", "r", "s", "t", "u", "v", "w", "x", "y", "z",
     "A", "B", "C", "D", "E", "F", "G", "H", "I", "J", "K", "L", "M",
     "N", "O", "P", "Q", "R", "S", "T", "U", "V", "W", "X", "Y", "Z"}

SpaceChars == {" ", "\t"}

MultispaceChars == {" ", "\t", "\r", "\n"}

DigitVal(c) ==
    CASE c = "0" -> 0 [] c = "1" -> 1 [] c = "2" -> 2 [] c = "3" -> 3
      [] c = "4" -> 4 [] c = "5" -> 5 [] c = "6" -> 6 [] c = "7" -> 7
      [] c = "8" -> 8 [] c = "9" -> 9

(***************************************************************************)
(* Stream primitives.                                                      *)
(***************************************************************************)
At(s, i) == IF i >= 1 /\ i <= Len(s) THEN s[i] ELSE EOF

End(s) == Len(s) + 1

Slice(s, i, j) == [k \in 1..(j - i) |-> s[i + k - 1]]

Ok(p, v) == [st |-> "ok", pos |-> p, val |-> v]

Backtrack(p) == [st |-> "backtrack", pos |-> p, val |-> "error"]

AssertFail(p) == [st |-> "assert", pos |-> p, val |-> "error"]

NoOut == [st |-> "none", pos |-> 0, val |-> "none"]

\* The element of a one-element set.  Only({e : x \in {v}}) is e with x
\* standing for v: this is how a parser names the result of the part that
\* ran before.
Only(S) == CHOOSE v \in S : TRUE

\* The cursor after the longest run of characters of C starting at i.
RunEnd(s, i, C) ==
    CHOOSE j \in i..End(s) :
        /\ \A k \in i..(j - 1) : s[k] \in C
        /\ At(s, j) \notin C

\* A literal: the characters of w, one after another.
Lit(s, i, w) ==
    IF \A k \in 1..Len(w) : At(s, i + k - 1) = w[k]
    THEN Ok(i + Len(w), w)
    ELSE Backtrack(i)

space0(s, i) == RunEnd(s, i, SpaceChars)

multispace0(s, i) == RunEnd(s, i, MultispaceChars)

space1(s, i) ==
    IF At(s, i) \in SpaceChars THEN Ok(RunEnd(s, i, SpaceChars), "ws")
    ELSE Backtrack(i)

multispace1(s, i) ==
    IF At(s, i) \in MultispaceChars THEN Ok(RunEnd(s, i, MultispaceChars), "ws")
    ELSE Backtrack(i)

RECURSIVE DecValue(_, _, _)
\* The number written by the digits s[i..j-1].
DecValue(s, i, j) ==
    IF j <= i THEN 0 ELSE 10 * DecValue(s, i, j - 1) + DigitVal(s[j - 1])

\* Mutant: a dec_uint that accepts the empty numeral as 0.
dec_uint_or_nothing(s, i) ==
    IF At(s, i) \in NonZeroDigitChars
    THEN Ok(RunEnd(s, i, DigitChars), DecValue(s, i, RunEnd(s, i, DigitChars)))
    ELSE IF At(s, i) = "0" THEN Ok(i + 1, 0)
    ELSE Ok(i, 0)

\* winnow::ascii::dec_uint: a non-zero digit and the digits after it, or a
\* single "0".
dec_uint(s, i) ==
    IF At(s, i) \in NonZeroDigitChars
    THEN Only({Ok(j, DecValue(s, i, j)) : j \in {RunEnd(s, i, DigitChars)}})
    ELSE IF At(s, i) = "0" THEN Ok(i + 1, 0)
    ELSE Backtrack(i)

(***************************************************************************)
(* Keywords.                                                               *)
(***************************************************************************)
\* The characters of the tag written `tag` in the source.
Keyword(tag) ==
    CASE tag = "nodes" -> <<"n", "o", "d", "e", "s">>
      [] tag = "edges" -> <<"e", "d", "g", "e", "s">>
      [] tag = "edge" -> <<"e", "d", "g", "e">>
      [] tag = "cluster" -> <<"c", "l", "u", "s", "t", "e", "r">>
      [] tag = "nb_nodes" -> <<"n", "b", "_", "n", "o", "d", "e", "s">>
      [] tag = "nb_edges" -> <<"n", "b", "_", "e", "d", "g", "e", "s">>
      [] tag = "date" -> <<"d", "a", "t", "e">>
      [] tag = "comments" -> <<"c", "o", "m", "m", "e", "n", "t", "s">>
      [] tag = "author" -> <<"a", "u", "t", "h", "o", "r">>
      [] tag = "property" -> <<"p", "r", "o", "p", "e", "r", "t", "y">>
      [] tag = "default" -> <<"d", "e", "f", "a", "u", "l", "t">>
      [] tag = "node" -> <<"n", "o", "d", "e">>
      [] tag = "graph_attributes" -> <<"g", "r", "a", "p", "h", "_", "a", "t", "t", "r", "i", "b", "u", "t", "e", "s">>
      [] tag = "tlp" -> <<"t", "l", "p">>

(***************************************************************************)
(* Options.                                                                *)
(***************************************************************************)
None == [some |-> FALSE]

Some(v) == [some |-> TRUE, v |-> v]

(***************************************************************************)
(* parse_tag: '(' space0 tag space1 <inner> space0 ')'?                    *)
(***************************************************************************)
\* The opening of a tagged block: ('(', space0, tag, space1).
tag_open(s, i, tag) ==
    IF At(s, i) # "(" THEN Backtrack(i)
    ELSE Only({IF t.st # "ok" THEN t ELSE space1(s, t.pos) :
                   t \in {Lit(s, space0(s, i + 1), tag)}})

\* The closing of a tagged block: (space0, opt(')')).
tag_close(s, i) ==
    Only({IF At(s, j) = ")" THEN j + 1 ELSE j : j \in {space0(s, i)}})

\* Mutant: the closing parenthesis is required.
tag_finish_strict(s, r) ==
    IF r.st # "ok" THEN r
    ELSE IF At(s, space0(s, r.pos)) # ")" THEN Backtrack(space0(s, r.pos))
    ELSE Ok(space0(s, r.pos) + 1, r.val)

\* The closing applied to the inner parser's result r.
tag_finish(s, r) ==
    IF r.st # "ok" THEN r ELSE Ok(tag_close(s, r.pos), r.val)

(***************************************************************************)
(* Identifier sets.                                                        *)
(***************************************************************************)
IdsRange(a, b) == [kind |-> "Range", start |-> a, end |-> b]

IdsList(l) == [kind |-> "List", ids |-> l]

parse_ids_range(s, i) ==
    Only({
        IF start.st # "ok" THEN start
        ELSE Only({
            IF dots.st # "ok" THEN dots
            ELSE Only({
                IF end.st # "ok" THEN end
                ELSE Ok(end.pos, IdsRange(start.val, end.val)) :
              end \in {dec_uint(s, dots.pos)}}) :
          dots \in {Lit(s, start.pos, <<".", ".">>)}}) :
      start \in {dec_uint(s, i)}})

\* Mutant: a list element without the not("..") lookahead.
ids_list_element_unguarded(s, i) == dec_uint(s, i)

\* terminated(dec_uint, not("..")): one element of a list.
ids_list_element(s, i) ==
    Only({
        IF n.st # "ok" THEN n
        ELSE IF Lit(s, n.pos, <<".", ".">>).st = "ok" THEN Backtrack(n.pos)
        ELSE n :
      n \in {dec_uint(s, i)}})

RECURSIVE ids_list_loop(_, _, _)
\* The loop of separated(1.., element, multispace1) after the first element:
\* a separator or an element that fails rewinds to before the separator.
ids_list_loop(s, i, acc) ==
    Only({
        IF sep.st # "ok" THEN Ok(i, acc)
        ELSE Only({
            IF e.st # "ok" THEN Ok(i, acc)
            ELSE ids_list_loop(s, e.pos, Append(acc, e.val)) :
          e \in {ids_list_element(s, sep.pos)}}) :
      sep \in {multispace1(s, i)}})

parse_ids_list(s, i) ==
    Only({
        IF first.st # "ok" THEN first
        ELSE Only({Ok(l.pos, IdsList(l.val)) :
                     l \in {ids_list_loop(s, first.pos, <<first.val>>)}}) :
      first \in {ids_list_element(s, i)}})

\* alt((range, list)): the list is tried from the same cursor when the range
\* fails.
parse_ids_bloc(s, i) ==
    Only({IF r.st = "ok" THEN r ELSE parse_ids_list(s, i) :
            r \in {parse_ids_range(s, i)}})

RECURSIVE ids_loop(_, _, _)
ids_loop(s, i, acc) ==
    Only({
        IF sep.st # "ok" THEN Ok(i, acc)
        ELSE Only({
            IF b.st # "ok" THEN Ok(i, acc)
            ELSE ids_loop(s, b.pos, Append(acc, b.val)) :
          b \in {parse_ids_bloc(s, sep.pos)}}) :
      sep \in {multispace1(s, i)}})

parse_ids(s, i) ==
    Only({
        IF first.st # "ok" THEN first
        ELSE ids_loop(s, first.pos, <<first.val>>) :
      first \in {parse_ids_bloc(s, i)}})

nodes_ids(s, i) ==
    Only({IF o.st # "ok" THEN o ELSE tag_finish(s, parse_ids(s, o.pos)) :
            o \in {tag_open(s, i, Keyword("nodes"))}})

edges_ids(s, i) ==
    Only({IF o.st # "ok" THEN o ELSE tag_finish(s, parse_ids(s, o.pos)) :
            o \in {tag_open(s, i, Keyword("edges"))}})

\* Mutant: a half-open range start..end.
IdsRange_to_vec_exclusive(r) == [k \in 1..(r.end - r.start) |-> r.start + k - 1]

\* IdsRange::to_vec: RangeInclusive::collect, empty when start > end.
IdsRange_to_vec(r) == [k \in 1..(r.end - r.start + 1) |-> r.start + k - 1]

\* IdsRange::len: RangeInclusive::count.
IdsRange_len(r) == IF r.start > r.end THEN 0 ELSE r.end - r.start + 1

IdsList_to_vec(l) == l.ids

IdsList_len(l) == Len(l.ids)

IdsBloc_to_vec(b) ==
    IF b.kind = "Range" THEN IdsRange_to_vec(b) ELSE IdsList_to_vec(b)

IdsBloc_len(b) ==
    IF b.kind = "Range" THEN IdsRange_len(b) ELSE IdsList_len(b)

RECURSIVE Ids_to_vec(_)
\* Ids::to_vec: the blocs' to_vec(), flattened in order.
Ids_to_vec(ids) ==
    IF ids = <<>> THEN <<>>
    ELSE IdsBloc_to_vec(Head(ids)) \o Ids_to_vec(Tail(ids))

\* Mutant: the number of blocs instead of the sum of their cardinalities.
Ids_len_blocs(ids) == Len(ids)

RECURSIVE Ids_len(_)
\* Ids::len: the sum of the blocs' len().
Ids_len(ids) ==
    IF ids = <<>> THEN 0 ELSE IdsBloc_len(Head(ids)) + Ids_len(Tail(ids))

(***************************************************************************)
(* String literals.                                                        *)
(***************************************************************************)
QUOTE == "\""

BACKSLASH == "\\"

\* The cursor after the longest run of characters other than those of X.
RunEndNot(s, i, X) ==
    CHOOSE j \in i..End(s) :
        /\ \A k \in i..(j - 1) : s[k] \notin X
        /\ (j = End(s) \/ s[j] \in X)

\* Mutant: `normal` is alpha1 or space1 only.
string_normal_letters(s, i) ==
    IF At(s, i) \in AlphaChars THEN Ok(RunEnd(s, i, AlphaChars), "normal")
    ELSE IF At(s, i) \in SpaceChars THEN Ok(RunEnd(s, i, SpaceChars), "normal")
    ELSE Backtrack(i)

\* alt((alpha1, space1, take_while(1.., |c| c != '"'))): the `normal` parser
\* of take_escaped.
string_normal(s, i) ==
    IF At(s, i) \in AlphaChars THEN Ok(RunEnd(s, i, AlphaChars), "normal")
    ELSE IF At(s, i) \in SpaceChars THEN Ok(RunEnd(s, i, SpaceChars), "normal")
    ELSE IF i <= Len(s) /\ s[i] # QUOTE THEN Ok(RunEndNot(s, i, {QUOTE}), "normal")
    ELSE Backtrack(i)

RECURSIVE take_escaped(_, _, _)
\* winnow's take_escaped(normal, '\\', '"') from cursor i, the content having
\* started at cursor start: while input is left, `normal` is tried first; only
\* where it fails is the control character tried, and after it the escapable
\* character is required; where neither matches the content ends.
take_escaped(s, start, i) ==
    IF i > Len(s) THEN Ok(End(s), Slice(s, start, End(s)))
    ELSE Only({
        IF n.st = "ok"
        THEN IF n.pos = i THEN Ok(i, Slice(s, start, i))
             ELSE take_escaped(s, start, n.pos)
        ELSE IF At(s, i) = BACKSLASH
             THEN IF At(s, i + 1) = QUOTE
                  THEN take_escaped(s, start, i + 2)
                  ELSE Backtrack(i + 1)
             ELSE Ok(i, Slice(s, start, i)) :
      n \in {string_normal(s, i)}})

\* alt(("\"\"", delimited('"', take_escaped(..), '"'))).
parse_string(s, i) ==
    IF Lit(s, i, <<QUOTE, QUOTE>>).st = "ok" THEN Ok(i + 2, <<>>)
    ELSE IF At(s, i) # QUOTE THEN Backtrack(i)
    ELSE Only({
        IF c.st # "ok" THEN c
        ELSE IF At(s, c.pos) # QUOTE THEN Backtrack(c.pos)
        ELSE Ok(c.pos + 1, c.val) :
      c \in {take_escaped(s, i + 1, i + 1)}})

(***************************************************************************)
(* Scalar sections, edges and count hints.                                 *)
(***************************************************************************)
\* parse_tag(tag, parse_string), the shape of date, comments and author.
tagged_string(s, i, tag) ==
    Only({IF o.st # "ok" THEN o ELSE tag_finish(s, parse_string(s, o.pos)) :
            o \in {tag_open(s, i, tag)}})

\* Mutant: an author block is taken where a date block may stand.
date_or_author(s, i) ==
    Only({IF d.st = "ok" THEN d ELSE tagged_string(s, i, Keyword("author")) :
            d \in {tagged_string(s, i, Keyword("date"))}})

date(s, i) == tagged_string(s, i, Keyword("date"))

comments(s, i) == tagged_string(s, i, Keyword("comments"))

author(s, i) == tagged_string(s, i, Keyword("author"))

\* parse_tag(tag, dec_uint), the shape of nb_nodes and nb_edges.
tagged_uint(s, i, tag) ==
    Only({IF o.st # "ok" THEN o ELSE tag_finish(s, dec_uint(s, o.pos)) :
            o \in {tag_open(s, i, tag)}})

nb_nodes(s, i) == tagged_uint(s, i, Keyword("nb_nodes"))

nb_edges(s, i) == tagged_uint(s, i, Keyword("nb_edges"))

edge_inner(s, i) ==
    Only({
        IF id.st # "ok" THEN id
        ELSE Only({
            IF w1.st # "ok" THEN w1
            ELSE Only({
                IF src.st # "ok" THEN src
                ELSE Only({
                    IF w2.st # "ok" THEN w2
                    ELSE Only({
                        IF tgt.st # "ok" THEN tgt
                        ELSE Ok(tgt.pos, [id |-> id.val, src |-> src.val,
                                          tgt |-> tgt.val]) :
                      tgt \in {dec_uint(s, w2.pos)}}) :
                  w2 \in {space1(s, src.pos)}}) :
              src \in {dec_uint(s, w1.pos)}}) :
          w1 \in {space1(s, id.pos)}}) :
      id \in {dec_uint(s, i)}})

edge(s, i) ==
    Only({IF o.st # "ok" THEN o ELSE tag_finish(s, edge_inner(s, o.pos)) :
            o \in {tag_open(s, i, Keyword("edge"))}})

\* terminated(opt((';', take_until(.., '\n'))), multispace0): a line comment
\* is skipped only when a line feed ends it.
skip_comment(s, i) ==
    IF At(s, i) = ";" /\ \E k \in (i + 1)..Len(s) : s[k] = "\n"
    THEN multispace0(s, RunEndNot(s, i + 1, {"\n"}))
    ELSE multispace0(s, i)

\* The result r of a section parser together with the warnings it printed.
Warned(r, n) == [st |-> r.st, pos |-> r.pos, val |-> r.val, warn |-> n]

\* opt(terminated(parse_tag("nb_nodes", dec_uint), multispace1)).
nb_nodes_hint(s, i) ==
    Only({
        IF h.st # "ok" THEN Ok(i, None)
        ELSE Only({
            IF w.st # "ok" THEN Ok(i, None) ELSE Ok(w.pos, Some(h.val)) :
          w \in {multispace1(s, h.pos)}}) :
      h \in {nb_nodes(s, i)}})

nodes_amount_and_ids(s, i) ==
    Only({
        Only({
            IF nodes.st # "ok" THEN Warned(nodes, 0)
            ELSE IF hint.val.some /\ Ids_len(nodes.val) # hint.val.v
                 THEN Warned(nodes, 1)
                 ELSE Warned(nodes, 0) :
          nodes \in {nodes_ids(s, skip_comment(s, hint.pos))}}) :
      hint \in {nb_nodes_hint(s, i)}})

\* opt(delimited(multispace0, nb_edges, multispace0)).
nb_edges_hint(s, i) ==
    Only({
        IF h.st # "ok" THEN Ok(i, None)
        ELSE Ok(multispace0(s, h.pos), Some(h.val)) :
      h \in {nb_edges(s, multispace0(s, i))}})

RECURSIVE edges_loop_unique(_, _, _)
\* Mutant: an edge whose id was already declared is refused.
edges_loop_unique(s, i, acc) ==
    Only({
        IF j = i THEN AssertFail(i)
        ELSE Only({
            IF e.st # "ok" THEN Ok(i, acc)
            ELSE IF \E k \in 1..Len(acc) : acc[k].id = e.val.id
                 THEN Backtrack(j)
                 ELSE edges_loop_unique(s, e.pos, Append(acc, e.val)) :
          e \in {edge(s, j)}}) :
      j \in {multispace0(s, i)}})

RECURSIVE edges_loop(_, _, _)
\* The loop of separated(.., edge, multispace0) after the first edge: the
\* separator always matches; winnow's loop check fails the parse when it
\* matched nothing; an edge that fails rewinds to before the separator.
edges_loop(s, i, acc) ==
    Only({
        IF j = i THEN AssertFail(i)
        ELSE Only({
            IF e.st # "ok" THEN Ok(i, acc)
            ELSE edges_loop(s, e.pos, Append(acc, e.val)) :
          e \in {edge(s, j)}}) :
      j \in {multispace0(s, i)}})

\* separated(.., edge, multispace0).
edge_list(s, i) ==
    Only({
        IF first.st # "ok" THEN Ok(i, <<>>)
        ELSE edges_loop(s, first.pos, <<first.val>>) :
      first \in {edge(s, i)}})

\* Mutant: the declared count is authoritative (the code's commented-out
\* separated(count, edge, ..)): another number of edges is an error.
edges_counted(s, i) ==
    Only({
        Only({
            IF es.st # "ok" THEN Warned(es, 0)
            ELSE IF count.val.some /\ Len(es.val) # count.val.v
                 THEN Warned(Backtrack(es.pos), 0)
                 ELSE Warned(es, 0) :
          es \in {edge_list(s, skip_comment(s, count.pos))}}) :
      count \in {nb_edges_hint(s, i)}})

edges(s, i) ==
    Only({
        Only({
            IF es.st # "ok" THEN Warned(es, 0)
            ELSE IF count.val.some /\ Len(es.val) # count.val.v
                 THEN Warned(es, 1)
                 ELSE Warned(es, 0) :
          es \in {edge_list(s, skip_comment(s, count.pos))}}) :
      count \in {nb_edges_hint(s, i)}})

(***************************************************************************)
(* Clusters.                                                               *)
(***************************************************************************)
RECURSIVE cluster(_, _)
RECURSIVE cluster_repeat(_, _, _)

\* repeat(.., cluster): clusters one directly after another, until one fails.
cluster_repeat(s, i, acc) ==
    Only({
        IF c.st = "backtrack" THEN Ok(i, acc)
        ELSE IF c.st # "ok" THEN c
        ELSE IF c.pos = i THEN AssertFail(i)
        ELSE cluster_repeat(s, c.pos, Append(acc, c.val)) :
      c \in {cluster(s, i)}})

cluster_inner(s, i) ==
    Only({
        IF id.st # "ok" THEN id
        ELSE Only({
            IF w1.st # "ok" THEN w1
            ELSE Only({
                IF nodes.st # "ok" THEN nodes
                ELSE Only({
                    IF w2.st # "ok" THEN w2
                    ELSE Only({
                        IF es.st # "ok" THEN es
                        ELSE Only({
                            IF kids.st # "ok" THEN kids
                            ELSE Ok(multispace0(s, kids.pos),
                                    [id |-> id.val, nodes |-> nodes.val,
                                     edges |-> es.val, clusters |-> kids.val]) :
                          kids \in {cluster_repeat(s, multispace0(s, es.pos),
                                                   <<>>)}}) :
                      es \in {edges_ids(s, w2.pos)}}) :
                  w2 \in {multispace1(s, nodes.pos)}}) :
              nodes \in {nodes_ids(s, w1.pos)}}) :
          w1 \in {multispace1(s, id.pos)}}) :
      id \in {dec_uint(s, i)}})

cluster(s, i) ==
    Only({IF o.st # "ok" THEN o ELSE tag_finish(s, cluster_inner(s, o.pos)) :
            o \in {tag_open(s, i, Keyword("cluster"))}})

RECURSIVE clusters_loop(_, _, _)
clusters_loop(s, i, acc) ==
    Only({
        IF sep.st # "ok" THEN Ok(i, acc)
        ELSE Only({
            IF c.st = "backtrack" THEN Ok(i, acc)
            ELSE IF c.st # "ok" THEN c
            ELSE clusters_loop(s, c.pos, Append(acc, c.val)) :
          c \in {cluster(s, sep.pos)}}) :
      sep \in {multispace1(s, i)}})

\* separated(1.., cluster, multispace1).
clusters(s, i) ==
    Only({
        IF first.st # "ok" THEN first
        ELSE clusters_loop(s, first.pos, <<first.val>>) :
      first \in {cluster(s, i)}})

(***************************************************************************)
(* Properties and graph attributes.                                        *)
(***************************************************************************)
\* terminated(p, multispace1) applied to p's result r.
then_multispace1(s, r) ==
    IF r.st # "ok" THEN r
    ELSE Only({IF w.st # "ok" THEN w ELSE Ok(w.pos, r.val) :
                 w \in {multispace1(s, r.pos)}})

\* terminated(p, multispace0) applied to p's result r.
then_multispace0(s, r) ==
    IF r.st # "ok" THEN r ELSE Ok(multispace0(s, r.pos), r.val)

\* The type keywords in the order property_type tries them.
PropertyTypes ==
    <<<<"c", "o", "l", "o", "r">>, <<"d", "o", "u", "b", "l", "e">>,
      <<"s", "t", "r", "i", "n", "g">>, <<"i", "n", "t">>,
      <<"l", "a", "y", "o", "u", "t">>, <<"g", "r", "a", "p", "h">>,
      <<"b", "o", "o", "l">>, <<"s", "i", "z", "e">>>>

RECURSIVE property_type_alt(_, _, _)
\* alt((...)) from its k-th alternative on.
property_type_alt(s, i, k) ==
    IF k > Len(PropertyTypes) THEN Backtrack(i)
    ELSE IF Lit(s, i, PropertyTypes[k]).st = "ok"
         THEN Ok(i + Len(PropertyTypes[k]), PropertyTypes[k])
         ELSE property_type_alt(s, i, k + 1)

property_type(s, i) == property_type_alt(s, i, 1)

default_inner(s, i) ==
    Only({
        IF node.st # "ok" THEN node
        ELSE Only({
            IF e.st # "ok" THEN e
            ELSE Ok(e.pos, [node |-> node.val, edge |-> e.val]) :
          e \in {then_multispace0(s, parse_string(s, node.pos))}}) :
      node \in {then_multispace1(s, parse_string(s, i))}})

property_default(s, i) ==
    Only({IF o.st # "ok" THEN o ELSE tag_finish(s, default_inner(s, o.pos)) :
            o \in {tag_open(s, i, Keyword("default"))}})

for_node_inner(s, i) ==
    Only({
        IF id.st # "ok" THEN id
        ELSE Only({
            IF value.st # "ok" THEN value
            ELSE Ok(value.pos, [id |-> id.val, value |-> value.val]) :
          value \in {then_multispace0(s, parse_string(s, id.pos))}}) :
      id \in {then_multispace1(s, dec_uint(s, i))}})

property_for_node(s, i) ==
    Only({IF o.st # "ok" THEN o ELSE tag_finish(s, for_node_inner(s, o.pos)) :
            o \in {tag_open(s, i, Keyword("node"))}})

RECURSIVE nodes_property_reversed(_, _, _)
\* Mutant: the overrides are collected last first.
nodes_property_reversed(s, i, acc) ==
    Only({
        IF p.st = "backtrack" THEN Ok(i, acc)
        ELSE IF p.st # "ok" THEN p
        ELSE IF p.pos = i THEN AssertFail(i)
        ELSE nodes_property_reversed(s, p.pos, <<p.val>> \o acc) :
      p \in {then_multispace0(s, property_for_node(s, i))}})

RECURSIVE nodes_property_repeat(_, _, _)
\* repeat(.., terminated(property_for_node, multispace0)).
nodes_property_repeat(s, i, acc) ==
    Only({
        IF p.st = "backtrack" THEN Ok(i, acc)
        ELSE IF p.st # "ok" THEN p
        ELSE IF p.pos = i THEN AssertFail(i)
        ELSE nodes_property_repeat(s, p.pos, Append(acc, p.val)) :
      p \in {then_multispace0(s, property_for_node(s, i))}})

\* delimited(multispace0, dec_uint, multispace1).
graph_id(s, i) == then_multispace1(s, dec_uint(s, multispace0(s, i)))

property_inner(s, i) ==
    Only({
        IF gid.st # "ok" THEN gid
        ELSE Only({
            IF type.st # "ok" THEN type
            ELSE Only({
                IF name.st # "ok" THEN name
                ELSE Only({
                    IF default.st # "ok" THEN default
                    ELSE Only({
                        IF nps.st # "ok" THEN nps
                        ELSE Ok(nps.pos,
                                [graph_id |-> gid.val, name |-> name.val,
                                 type |-> type.val,
                                 node_default |-> default.val.node,
                                 edge_default |-> default.val.edge,
                                 nodes_property |-> nps.val]) :
                      nps \in {then_multispace0(s,
                                  nodes_property_repeat(s, default.pos, <<>>))}}) :
                  default \in {then_multispace1(s,
                                  property_default(s, name.pos))}}) :
              name \in {then_multispace1(s, parse_string(s, type.pos))}}) :
          type \in {then_multispace1(s, property_type(s, gid.pos))}}) :
      gid \in {graph_id(s, i)}})

property(s, i) ==
    Only({IF o.st # "ok" THEN o ELSE tag_finish(s, property_inner(s, o.pos)) :
            o \in {tag_open(s, i, Keyword("property"))}})

RECURSIVE properties_repeat(_, _, _)
properties_repeat(s, i, acc) ==
    Only({
        IF p.st = "backtrack" THEN Ok(i, acc)
        ELSE IF p.st # "ok" THEN p
        ELSE IF p.pos = i THEN AssertFail(i)
        ELSE properties_repeat(s, p.pos, Append(acc, p.val)) :
      p \in {then_multispace0(s, property(s, i))}})

\* repeat(.., terminated(property, multispace0)).
properties(s, i) == properties_repeat(s, i, <<>>)

\* delimited((multispace0, '(', multispace0), (type, name, value),
\*           (multispace0, ')', multispace0)): the ')' is required here.
attribute(s, i) ==
    Only({
        IF At(s, j) # "(" THEN Backtrack(j)
        ELSE Only({
            IF type.st # "ok" THEN type
            ELSE Only({
                IF name.st # "ok" THEN name
                ELSE Only({
                    IF value.st # "ok" THEN value
                    ELSE IF At(s, multispace0(s, value.pos)) # ")"
                         THEN Backtrack(multispace0(s, value.pos))
                    ELSE Ok(multispace0(s, multispace0(s, value.pos) + 1),
                            [type |-> type.val, name |-> name.val,
                             value |-> value.val]) :
                  value \in {parse_string(s, name.pos)}}) :
              name \in {then_multispace1(s, parse_string(s, type.pos))}}) :
          type \in {then_multispace1(s,
                       property_type(s, multispace0(s, j + 1)))}}) :
      j \in {multispace0(s, i)}})

RECURSIVE attributes_repeat(_, _, _)
\* repeat(.., terminated(attribute, multispace0)).
attributes_repeat(s, i, acc) ==
    Only({
        IF a.st = "backtrack" THEN Ok(i, acc)
        ELSE IF a.st # "ok" THEN a
        ELSE IF a.pos = i THEN AssertFail(i)
        ELSE attributes_repeat(s, a.pos, Append(acc, a.val)) :
      a \in {then_multispace0(s, attribute(s, i))}})

\* The graph id is parsed and dropped.
attributes_inner(s, i) ==
    Only({IF gid.st # "ok" THEN gid ELSE attributes_repeat(s, gid.pos, <<>>) :
            gid \in {graph_id(s, i)}})

attributes(s, i) ==
    Only({IF o.st # "ok" THEN o ELSE tag_finish(s, attributes_inner(s, o.pos)) :
            o \in {tag_open(s, i, Keyword("graph_attributes"))}})

(***************************************************************************)
(* The document assembler: graph / inner_graph and Graph::from_str.        *)
(***************************************************************************)
\* Mutant: comments are visited before the date.
SectionsCommentsFirst ==
    <<"version", "comments", "date", "nodes", "edges", "clusters",
      "properties", "attributes">>

\* The sections of inner_graph, in the order of its statements.
Sections ==
    <<"version", "date", "comments", "nodes", "edges", "clusters",
      "properties", "attributes">>

\* Mutant: an opt that leaves the cursor where the failed attempt stopped.
opt_consuming(i, r) ==
    IF r.st = "backtrack" THEN Ok(r.pos, None)
    ELSE IF r.st # "ok" THEN r
    ELSE Ok(r.pos, Some(r.val))

\* opt(p) applied to the result r of p started at cursor i: a recoverable
\* failure rewinds to i and yields None.
opt(i, r) ==
    IF r.st = "backtrack" THEN Ok(i, None)
    ELSE IF r.st # "ok" THEN r
    ELSE Ok(r.pos, Some(r.val))

\* The parser inner_graph runs for one section, with the warnings it prints.
section(name, s, i) ==
    CASE name = "version" ->
            Warned(then_multispace0(s, parse_string(s, i)), 0)
      [] name = "date" ->
            Warned(opt(i, then_multispace0(s, date(s, i))), 0)
      [] name = "comments" ->
            Warned(opt(i, then_multispace0(s, comments(s, i))), 0)
      [] name = "nodes" ->
            Only({Warned(then_multispace0(s, r), r.warn) :
                    r \in {nodes_amount_and_ids(s, i)}})
      [] name = "edges" ->
            Only({Warned(then_multispace0(s, r), r.warn) :
                    r \in {edges(s, i)}})
      [] name = "clusters" ->
            Warned(opt(i, then_multispace0(s, clusters(s, i))), 0)
      [] name = "properties" ->
            Warned(opt(i, then_multispace0(s, properties(s, i))), 0)
      [] name = "attributes" ->
            Warned(opt(i, then_multispace0(s, attributes(s, i))), 0)

\* .context(StrContext::Label(..)) on the nodes and the edges parser.
section_label(name) ==
    IF name = "nodes" THEN "Nodes parsing"
    ELSE IF name = "edges" THEN "Edges parsing"
    ELSE "none"

\* A Graph before any section is parsed; author stays None.
NoDoc ==
    [version |-> <<>>, author |-> None, comments |-> None, date |-> None,
     nodes |-> <<>>, edges |-> <<>>, properties |-> None,
     attributes |-> None, clusters |-> None]

\* The result r of the assembler with the warnings printed so far and the
\* label of the failure.
Result(r, w, l) ==
    [st |-> r.st, pos |-> r.pos, val |-> r.val, warn |-> w, label |-> l]

RECURSIVE inner_graph_from(_, _, _, _, _)
\* inner_graph from its k-th section on, g holding the sections parsed so far
\* and w the warnings printed so far.
inner_graph_from(s, i, k, g, w) ==
    IF k > Len(Sections) THEN Result(Ok(i, g), w, "none")
    ELSE Only({
        IF r.st # "ok"
        THEN Result(r, w + r.warn, section_label(Sections[k]))
        ELSE inner_graph_from(s, r.pos, k + 1,
                              [g EXCEPT ![Sections[k]] = r.val], w + r.warn) :
      r \in {section(Sections[k], s, i)}})

inner_graph(s, i) == inner_graph_from(s, i, 1, NoDoc, 0)

\* terminated(parse_tag("tlp", inner_graph), multispace0).
graph(s, i) ==
    Only({
        IF o.st # "ok" THEN Result(o, 0, "none")
        ELSE Only({
            Result(then_multispace0(s, tag_finish(s, g)), g.warn, g.label) :
          g \in {inner_graph(s, o.pos)}}) :
      o \in {tag_open(s, i, Keyword("tlp"))}})

\* Mutant: an eof that accepts remaining input.
eof_lenient(s, i) == Ok(i, "eof")

\* winnow's eof, which Parser::parse runs after the parser.
eof(s, i) == IF i = End(s) THEN Ok(i, "eof") ELSE Backtrack(i)

\* Graph::from_str: graph.parse(s), the parser followed by eof.
from_str(s) ==
    Only({
        IF g.st # "ok" THEN g
        ELSE Only({
            IF e.st # "ok" THEN Result(e, g.warn, "none") ELSE g :
          e \in {eof(s, g.pos)}}) :
      g \in {graph(s, 1)}})

(***************************************************************************)
(* Specification SpecIds: the identifier-set parsers on every text of at   *)
(* most MaxIdLen characters over IdChars.                                  *)
(***************************************************************************)
IdChars == {"0", "1", "2", ".", " "}

\* Every text of 1..n characters of C.
Texts(C, n) == UNION {[1..k -> C] : k \in 1..n}

NoMeaning == [kind |-> "text"]

NoExpansion == [taken |-> FALSE, vec |-> <<>>, len |-> 0]

\* "(<kw> <body>)"
Block(kw, body) == <<"(">> \o kw \o <<" ">> \o body \o <<")">>

DigitChar(d) ==
    CASE d = 0 -> "0" [] d = 1 -> "1" [] d = 2 -> "2" [] d = 3 -> "3"
      [] d = 4 -> "4" [] d = 5 -> "5" [] d = 6 -> "6" [] d = 7 -> "7"
      [] d = 8 -> "8" [] d = 9 -> "9"

RECURSIVE Numeral(_)
\* The decimal numeral of n.
Numeral(n) ==
    IF n < 10 THEN <<DigitChar(n)>>
    ELSE Numeral(n \div 10) \o <<DigitChar(n % 10)>>

\* A string literal with content c.
Str(c) == <<QUOTE>> \o c \o <<QUOTE>>

RECURSIVE Join(_, _)
\* The texts of ts, sep between them.
Join(ts, sep) ==
    IF ts = <<>> THEN <<>>
    ELSE IF Len(ts) = 1 THEN ts[1]
    ELSE ts[1] \o sep \o Join(Tail(ts), sep)

RECURSIVE SeqsUpTo(_, _)
\* The sequences of at most n elements of S.
SeqsUpTo(S, n) ==
    IF n = 0 THEN {<<>>}
    ELSE LET shorter == SeqsUpTo(S, n - 1)
         IN  shorter \cup {Append(q, x) : q \in shorter, x \in S}

IdInputs ==
    Texts(IdChars, MaxIdLen)
        \cup {Block(Keyword("nodes"), t) : t \in Texts(IdChars, MaxBlockIdLen)}
        \cup {Block(Keyword("edges"), t) : t \in Texts(IdChars, MaxBlockIdLen)}

InitIds ==
    /\ input \in IdInputs
    /\ meant = NoMeaning
    /\ entry = "none"
    /\ out = NoOut
    /\ expansion = NoExpansion
    /\ warnings = 0
    /\ pc = "none"
    /\ cursor = 1
    /\ doc = NoDoc
    /\ label = "none"

Call(name, r) ==
    /\ entry = "none"
    /\ entry' = name
    /\ out' = [st |-> r.st, pos |-> r.pos, val |-> r.val]
    /\ warnings' = IF "warn" \in DOMAIN r THEN r.warn ELSE 0
    /\ cursor' = r.pos
    /\ UNCHANGED <<input, meant, expansion, pc, doc, label>>

CallParseIdsRange == Call("parse_ids_range", parse_ids_range(input, 1))

CallParseIdsList == Call("parse_ids_list", parse_ids_list(input, 1))

CallParseIdsBloc == Call("parse_ids_bloc", parse_ids_bloc(input, 1))

CallParseIds == Call("parse_ids", parse_ids(input, 1))

CallNodesIds == Call("nodes_ids", nodes_ids(input, 1))

CallEdgesIds == Call("edges_ids", edges_ids(input, 1))

\* Ids::to_vec and Ids::len on a parsed identifier set (NodesIds and EdgesIds
\* deref to Ids).
Expand ==
    /\ entry \in {"parse_ids", "nodes_ids", "edges_ids"}
    /\ out.st = "ok"
    /\ ~expansion.taken
    /\ expansion' = [taken |-> TRUE, vec |-> Ids_to_vec(out.val),
                      len |-> Ids_len(out.val)]
    /\ UNCHANGED <<input, meant, entry, out, warnings, pc, cursor, doc, label>>

NextIds ==
    \/ CallParseIdsRange
    \/ CallParseIdsList
    \/ CallParseIdsBloc
    \/ CallParseIds
    \/ CallNodesIds
    \/ CallEdgesIds
    \/ Expand

SpecIds == InitIds /\ [][NextIds]_vars

(***************************************************************************)
(* What a text says, read off the text itself (not through the parsers):   *)
(* numerals, range tokens and whitespace-separated token lists.            *)
(***************************************************************************)
IsNumeral(t) ==
    /\ Len(t) >= 1
    /\ \A k \in 1..Len(t) : t[k] \in DigitChars
    /\ (t[1] = "0" => Len(t) = 1)

RECURSIVE Pow10(_)
Pow10(n) == IF n = 0 THEN 1 ELSE 10 * Pow10(n - 1)

RECURSIVE NumeralValue(_)
NumeralValue(t) ==
    IF t = <<>> THEN 0
    ELSE DigitVal(Head(t)) * Pow10(Len(t) - 1) + NumeralValue(Tail(t))

DotsAt(t, k) == k >= 1 /\ k + 1 <= Len(t) /\ t[k] = "." /\ t[k + 1] = "."

IsRangeText(t) ==
    \E k \in 1..Len(t) :
        /\ DotsAt(t, k)
        /\ IsNumeral(SubSeq(t, 1, k - 1))
        /\ IsNumeral(SubSeq(t, k + 2, Len(t)))

RangeOf(t) ==
    LET k == CHOOSE k \in 1..Len(t) : DotsAt(t, k)
    IN  IdsRange(NumeralValue(SubSeq(t, 1, k - 1)),
                 NumeralValue(SubSeq(t, k + 2, Len(t))))

RECURSIVE Tokens(_)
\* The maximal whitespace-free pieces of t, in order.
Tokens(t) ==
    IF t = <<>> THEN <<>>
    ELSE IF t[1] \in MultispaceChars THEN Tokens(Tail(t))
    ELSE LET e == RunEnd(t, 1, {t[k] : k \in 1..Len(t)} \ MultispaceChars)
         IN  <<SubSeq(t, 1, e - 1)>> \o Tokens(SubSeq(t, e, Len(t)))

\* One or more blocs separated by whitespace, nothing before or after.
IsIdSetText(t) ==
    /\ t # <<>>
    /\ t[1] \notin MultispaceChars
    /\ t[Len(t)] \notin MultispaceChars
    /\ LET toks == Tokens(t)
       IN  \A k \in 1..Len(toks) : IsNumeral(toks[k]) \/ IsRangeText(toks[k])

Interval(a, b) == [k \in 1..(b - a + 1) |-> a + k - 1]

TokenExpansion(tok) ==
    IF IsNumeral(tok) THEN <<NumeralValue(tok)>>
    ELSE Interval(RangeOf(tok).start, RangeOf(tok).end)

RECURSIVE Concat(_)
Concat(ss) == IF ss = <<>> THEN <<>> ELSE Head(ss) \o Concat(Tail(ss))

TextExpansion(t) ==
    LET toks == Tokens(t)
    IN  Concat([k \in 1..Len(toks) |-> TokenExpansion(toks[k])])

(***************************************************************************)
(* C1. Range before list: the bloc parser applied to a text `a..b` (also   *)
(* when a > b) returns the single bloc Range{a,b} and consumes the whole   *)
(* text; a successful list parse never stops in front of `..`, so no       *)
(* integer that is immediately followed by `..` is an element of a List.   *)
(***************************************************************************)
C1_RangeBeforeList ==
    /\ (entry = "parse_ids_bloc" /\ IsRangeText(input)) =>
           out = Ok(End(input), RangeOf(input))
    /\ (entry = "parse_ids" /\ IsRangeText(input)) =>
           out = Ok(End(input), <<RangeOf(input)>>)
    /\ (entry \in {"parse_ids_list", "parse_ids_bloc"} /\ out.st = "ok"
           /\ out.val.kind = "List") =>
           ~DotsAt(input, out.pos)

\* A decreasing range was handed to the bloc parser.
C1_Witness ==
    /\ entry = "parse_ids_bloc"
    /\ IsRangeText(input)
    /\ RangeOf(input).start > RangeOf(input).end
    /\ out.st = "ok"

(***************************************************************************)
(* C9. A Range{a,b} bloc produced by parsing `a..b` (alone, or inside      *)
(* `(nodes a..b)` / `(edges a..b)`) expands to [a, a+1, ..., b] with       *)
(* cardinality b-a+1 when a <= b and to the empty sequence with            *)
(* cardinality 0 when a > b; the parse and the expansion raise no error.   *)
(***************************************************************************)
IsBlockOf(t, kw) ==
    /\ Len(t) >= Len(kw) + 3
    /\ SubSeq(t, 1, Len(kw) + 2) = <<"(">> \o kw \o <<" ">>
    /\ t[Len(t)] = ")"

BlockBody(t, kw) == SubSeq(t, Len(kw) + 3, Len(t) - 1)

\* The range text that the called parser was given, <<>> if it was given none.
RangeTextGiven ==
    CASE entry = "parse_ids" -> IF IsRangeText(input) THEN input ELSE <<>>
      [] entry = "nodes_ids" /\ IsBlockOf(input, Keyword("nodes")) ->
            IF IsRangeText(BlockBody(input, Keyword("nodes")))
            THEN BlockBody(input, Keyword("nodes")) ELSE <<>>
      [] entry = "edges_ids" /\ IsBlockOf(input, Keyword("edges")) ->
            IF IsRangeText(BlockBody(input, Keyword("edges")))
            THEN BlockBody(input, Keyword("edges")) ELSE <<>>
      [] OTHER -> <<>>

C9_RangeExpansion ==
    RangeTextGiven # <<>> =>
        LET a == RangeOf(RangeTextGiven).start
            b == RangeOf(RangeTextGiven).end
        IN  /\ out = Ok(End(input), <<IdsRange(a, b)>>)
            /\ expansion.taken =>
                  /\ Len(expansion.vec) = expansion.len
                  /\ a <= b =>
                        /\ expansion.len = b - a + 1
                        /\ \A k \in 1..(b - a + 1) : expansion.vec[k] = a + k - 1
                  /\ a > b => expansion.vec = <<>> /\ expansion.len = 0

\* A decreasing range inside a (nodes ...) block was expanded.
C9_Witness ==
    /\ entry = "nodes_ids"
    /\ expansion.taken
    /\ Len(out.val) = 1
    /\ out.val[1].kind = "Range"
    /\ out.val[1].start > out.val[1].end

(***************************************************************************)
(* C10. For an identifier set written as one or more blocs separated by    *)
(* whitespace, parse_ids consumes the whole text, the expansion of the     *)
(* parsed set is the concatenation in textual order of what each token     *)
(* says (a list integer verbatim, a range its interval; no sorting, no     *)
(* deduplication) and len() is the length of that expansion.               *)
(***************************************************************************)
C10_IdSetExpansion ==
    (entry = "parse_ids" /\ IsIdSetText(input)) =>
        /\ out.st = "ok"
        /\ out.pos = End(input)
        /\ expansion.taken =>
              LET said == TextExpansion(input)
              IN  expansion.vec = said /\ expansion.len = Len(said)

\* A set of two blocs, one a list, whose expansion is neither sorted nor
\* duplicate-free.
C10_Witness ==
    /\ entry = "parse_ids"
    /\ IsIdSetText(input)
    /\ expansion.taken
    /\ Len(out.val) >= 2
    /\ \E k \in 1..Len(out.val) : out.val[k].kind = "List"
    /\ \E j, k \in 1..Len(expansion.vec) :
          j < k /\ expansion.vec[j] > expansion.vec[k]
    /\ \E j, k \in 1..Len(expansion.vec) :
          j < k /\ expansion.vec[j] = expansion.vec[k]

(***************************************************************************)
(* Specification SpecStr: parse_string on every text of at most MaxStrLen  *)
(* characters over StrChars.                                               *)
(***************************************************************************)
StrChars == {QUOTE, BACKSLASH, "a", " ", "1", "("}

InitStr ==
    /\ input \in Texts(StrChars, MaxStrLen)
    /\ meant = NoMeaning
    /\ entry = "none"
    /\ out = NoOut
    /\ expansion = NoExpansion
    /\ warnings = 0
    /\ pc = "none"
    /\ cursor = 1
    /\ doc = NoDoc
    /\ label = "none"

CallParseString == Call("parse_string", parse_string(input, 1))

NextStr == CallParseString

SpecStr == InitStr /\ [][NextStr]_vars

(***************************************************************************)
(* C3. Escaped quote: in a quoted literal whose content contains a         *)
(* backslash immediately followed by a double quote, the escaped quote     *)
(* does not end the literal; backslash and quote are kept as content and   *)
(* the literal ends at the next unescaped double quote.                    *)
(***************************************************************************)
\* t is a literal: an opening quote, a content in which every double quote is
\* escaped and every backslash escapes a double quote, at least one escaped
\* quote, and the closing (unescaped) quote.
IsEscapedLiteral(t) ==
    /\ Len(t) >= 4
    /\ t[1] = QUOTE
    /\ t[Len(t)] = QUOTE
    /\ t[Len(t) - 1] # BACKSLASH
    /\ \E k \in 2..(Len(t) - 2) : t[k] = BACKSLASH
    /\ \A k \in 2..(Len(t) - 1) :
          /\ t[k] = QUOTE => t[k - 1] = BACKSLASH
          /\ t[k] = BACKSLASH => t[k + 1] = QUOTE

C3_EscapedQuoteKept ==
    (entry = "parse_string" /\ IsEscapedLiteral(input)) =>
        out = Ok(End(input), SubSeq(input, 2, Len(input) - 1))

\* t is a literal whose content holds no double quote.
IsPlainLiteral(t) ==
    /\ Len(t) >= 2
    /\ t[1] = QUOTE
    /\ t[Len(t)] = QUOTE
    /\ \A k \in 2..(Len(t) - 1) : t[k] # QUOTE

(***************************************************************************)
(* C15. Verbatim string content: for every literal whose content is a      *)
(* possibly empty sequence of characters other than the double quote, the  *)
(* string parser succeeds, consumes the whole literal with both quotes and *)
(* returns exactly the content; the literal of two quotes returns the      *)
(* empty string.                                                           *)
(***************************************************************************)
C15_VerbatimContent ==
    (entry = "parse_string" /\ IsPlainLiteral(input)) =>
        /\ out.st = "ok"
        /\ out.pos = End(input)
        /\ out.val = SubSeq(input, 2, Len(input) - 1)
        /\ input = <<QUOTE, QUOTE>> => out.val = <<>>

\* A literal of a letter, a space, a digit and a parenthesis was parsed.
C15_Witness ==
    /\ entry = "parse_string"
    /\ input = <<QUOTE, "a", " ", "1", "(", QUOTE>>
    /\ out.st = "ok"
    /\ out.val = <<"a", " ", "1", "(">>

(***************************************************************************)
(* Specification SpecSect: the node section and the edge section parsers   *)
(* on sections written with and without a count hint.  A section text is   *)
(* hint, gap, rest: rest is an optional line comment and the blocks.       *)
(***************************************************************************)
Gaps == {<<>>, <<" ">>, <<"\n">>}

LineComments == {<<>>, <<";", "c", "\n">>, <<";", "c">>}

NodeBodies ==
    {<<"0", " ", "1">>, <<"0", ".", ".", "2">>, <<"2", ".", ".", "0">>,
     <<"1", " ", "1", " ", "1">>, <<"x">>}

SampleEdges == {<<"0", " ", "0", " ", "1">>, <<"1", " ", "1", " ", "0">>}

EdgeTails == {<<>>, <<"\n">>, <<")">>, <<"\n", "(", "e", "d", "g", "e", " ", ")">>}

\* hint: a declared count, or -1 for no hint.
SectionText(kw, hint, gap, rest) ==
    IF hint < 0 THEN rest ELSE Block(kw, Numeral(hint)) \o gap \o rest

NodeSectionCases ==
    {[kind |-> "nodes", hint |-> h, gap |-> g,
      rest |-> c \o Block(Keyword("nodes"), b)] :
        h \in -1..MaxHint, g \in Gaps, c \in LineComments, b \in NodeBodies}

EdgeSectionCases ==
    {[kind |-> "edges", hint |-> h, gap |-> g,
      rest |-> c \o Join([k \in 1..Len(es) |-> Block(Keyword("edge"), es[k])], sep) \o tl] :
        h \in -1..MaxHint, g \in Gaps, c \in LineComments,
        es \in SeqsUpTo(SampleEdges, MaxEdges), sep \in {<<"\n">>, <<>>},
        tl \in EdgeTails}

CaseText(c) ==
    SectionText(IF c.kind = "nodes" THEN Keyword("nb_nodes") ELSE Keyword("nb_edges"),
                c.hint, c.gap, c.rest)

InitSect ==
    /\ meant \in NodeSectionCases \cup EdgeSectionCases
    /\ input = CaseText(meant)
    /\ entry = "none"
    /\ out = NoOut
    /\ expansion = NoExpansion
    /\ warnings = 0
    /\ pc = "none"
    /\ cursor = 1
    /\ doc = NoDoc
    /\ label = "none"

CallNodesAmountAndIds ==
    /\ meant.kind = "nodes"
    /\ Call("nodes_amount_and_ids", nodes_amount_and_ids(input, 1))

CallEdges ==
    /\ meant.kind = "edges"
    /\ Call("edges", edges(input, 1))

NextSect == CallNodesAmountAndIds \/ CallEdges

SpecSect == InitSect /\ [][NextSect]_vars

(***************************************************************************)
(* C4. Advisory counts: with a declared count k -- `(nb_nodes k)` followed *)
(* by whitespace in the node section, `(nb_edges k)` in the edge section   *)
(* -- the section parser succeeds exactly when it succeeds on the section  *)
(* without the hint and returns the same node set / edge sequence; it      *)
(* prints exactly one warning when k differs from the parsed cardinality   *)
(* and none when k equals it, and the count never raises an error.         *)
(***************************************************************************)
HintGiven ==
    /\ meant.kind \in {"nodes", "edges"}
    /\ meant.hint >= 0
    /\ meant.kind = "nodes" => meant.gap # <<>>

ParsedCount(v) == IF meant.kind = "nodes" THEN Ids_len(v) ELSE Len(v)

C19_EdgeSectionNeverFails ==
    entry = "edges" =>
        /\ out.st = "ok"
        /\ out.pos <= End(input)
        /\ edge(input, multispace0(input, out.pos)).st # "ok"

(***************************************************************************)
(* Specification SpecCluster: the cluster parsers on cluster blocks        *)
(* written from every ordered tree of at most MaxClusters clusters.  The   *)
(* clusters are numbered 1, 2, ... in textual order; ws separates the      *)
(* parts of a block and kidsep separates sibling clusters.                 *)
(***************************************************************************)
RECURSIVE Forests(_)
\* The ordered forests of exactly n clusters: a forest is the sequence of its
\* trees, a tree is the forest of its children.
Forests(n) ==
    IF n = 0 THEN {<<>>}
    ELSE UNION {{<<first>> \o others : first \in Forests(k),
                                       others \in Forests(n - 1 - k)} :
                   k \in 0..(n - 1)}

RECURSIVE ForestSize(_)
ForestSize(f) ==
    IF f = <<>> THEN 0 ELSE 1 + ForestSize(Head(f)) + ForestSize(Tail(f))

ClusterBodies ==
    {[nodes |-> <<"0", ".", ".", "1">>, edges |-> <<"0">>],
     [nodes |-> <<"2", " ", "1">>, edges |-> <<"3", ".", ".", "1">>]}

RECURSIVE ForestText(_, _, _)
\* The text of forest f, its first cluster numbered id, under layout l: before
\* every cluster but the first comes l.kidsep.
ForestText(f, id, l) ==
    IF f = <<>> THEN <<>>
    ELSE <<"(">> \o Keyword("cluster") \o <<" ">> \o Numeral(id) \o l.ws
           \o Block(Keyword("nodes"), l.body.nodes) \o l.ws
           \o Block(Keyword("edges"), l.body.edges) \o l.ws
           \o ForestText(Head(f), id + 1, l)
           \o (IF Head(f) = <<>> THEN <<>> ELSE l.ws) \o <<")">>
           \o (IF Tail(f) = <<>> THEN <<>> ELSE l.kidsep)
           \o ForestText(Tail(f), id + 1 + ForestSize(Head(f)), l)

Layouts ==
    [ws : {<<" ">>, <<"\n">>}, kidsep : {<<>>, <<" ">>, <<"\n">>},
     body : ClusterBodies]

ClusterCases ==
    {[kind |-> "cluster", tree |-> f, layout |-> l] :
        f \in UNION {Forests(n) : n \in 0..(MaxClusters - 1)}, l \in Layouts}

InitCluster ==
    /\ meant \in ClusterCases
    /\ input = ForestText(<<meant.tree>>, 1, meant.layout)
    /\ entry = "none"
    /\ out = NoOut
    /\ expansion = NoExpansion
    /\ warnings = 0
    /\ pc = "none"
    /\ cursor = 1
    /\ doc = NoDoc
    /\ label = "none"

CallCluster == Call("cluster", cluster(input, 1))

CallClusters == Call("clusters", clusters(input, 1))

NextCluster == CallCluster \/ CallClusters

SpecCluster == InitCluster /\ [][NextCluster]_vars

RECURSIVE ForestIds(_, _)
\* The numbers of the clusters of forest f, as nested sequences.
ForestIds(f, id) ==
    IF f = <<>> THEN <<>>
    ELSE <<[id |-> id, clusters |-> ForestIds(Head(f), id + 1)]>>
           \o ForestIds(Tail(f), id + 1 + ForestSize(Head(f)))

RECURSIVE ParsedIds(_)
\* The ids of a parsed sequence of Cluster values, as nested sequences.
ParsedIds(cs) ==
    [k \in 1..Len(cs) |->
        [id |-> cs[k].id, clusters |-> ParsedIds(cs[k].clusters)]]

(***************************************************************************)
(* C2. Cluster children: a cluster block that textually contains k >= 0    *)
(* directly nested cluster blocks, one after another separated by          *)
(* whitespace, parses to a Cluster whose children are exactly those k      *)
(* clusters in textual order (recursively), the parser consuming the block *)
(* up to its own closing parenthesis.                                      *)
(***************************************************************************)
C2_ClusterChildren ==
    (entry = "cluster" /\ meant.kind = "cluster"
        /\ meant.layout.kidsep # <<>>) =>
        /\ out.st = "ok"
        /\ out.pos = End(input)
        /\ ParsedIds(<<out.val>>) = ForestIds(<<meant.tree>>, 1)

RECURSIVE ForestDepth(_)
\* The nesting depth of the cluster blocks of forest f: 0 for no cluster.
ForestDepth(f) ==
    IF f = <<>> THEN 0
    ELSE IF 1 + ForestDepth(Head(f)) >= ForestDepth(Tail(f))
         THEN 1 + ForestDepth(Head(f))
         ELSE ForestDepth(Tail(f))

RECURSIVE ParsedDepth(_)
\* The depth of a parsed sequence of Cluster values.
ParsedDepth(cs) ==
    IF cs = <<>> THEN 0
    ELSE IF 1 + ParsedDepth(Head(cs).clusters) >= ParsedDepth(Tail(cs))
         THEN 1 + ParsedDepth(Head(cs).clusters)
         ELSE ParsedDepth(Tail(cs))

(***************************************************************************)
(* C11. Cluster tree depth: for every cluster block accepted by the        *)
(* cluster parser, the depth of the parsed Cluster tree equals the textual *)
(* nesting depth of the (cluster ...) blocks of the input.                 *)
(***************************************************************************)
C11_ClusterTreeDepth ==
    (entry = "cluster" /\ meant.kind = "cluster" /\ out.st = "ok") =>
        ParsedDepth(<<out.val>>) = ForestDepth(<<meant.tree>>)

(***************************************************************************)
(* The assembler as a machine: pc names the statement of graph /           *)
(* inner_graph about to run ("open", a section of Sections, "close"), then *)
(* "eof" (the end-of-input check of Parser::parse, in from_str only) and   *)
(* "done" or "failed" once the call has returned.                          *)
(***************************************************************************)
Start(name) ==
    /\ entry = "none"
    /\ entry' = name
    /\ pc' = "open"
    /\ UNCHANGED <<input, meant, out, expansion, warnings, cursor, doc, label>>

StartGraph == Start("graph")

StartFromStr == Start("from_str")

\* The call returns the failure r.
Fail(r, l) ==
    /\ pc' = "failed"
    /\ out' = [st |-> r.st, pos |-> r.pos, val |-> r.val]
    /\ label' = l
    /\ cursor' = r.pos

\* ('(', space0, "tlp", space1) of parse_tag.
OpenTlp ==
    /\ pc = "open"
    /\ \E r \in {tag_open(input, cursor, Keyword("tlp"))} :
          IF r.st = "ok"
          THEN /\ pc' = Sections[1]
               /\ cursor' = r.pos
               /\ UNCHANGED <<out, label>>
          ELSE Fail(r, "none")
    /\ UNCHANGED <<input, meant, entry, expansion, warnings, doc>>

\* The k-th statement of inner_graph.
Visit(k) ==
    /\ pc = Sections[k]
    /\ \E r \in {section(Sections[k], input, cursor)} :
          /\ warnings' = warnings + r.warn
          /\ IF r.st = "ok"
             THEN /\ pc' = IF k < Len(Sections) THEN Sections[k + 1] ELSE "close"
                  /\ cursor' = r.pos
                  /\ doc' = [doc EXCEPT ![Sections[k]] = r.val]
                  /\ UNCHANGED <<out, label>>
             ELSE /\ Fail(r, section_label(Sections[k]))
                  /\ UNCHANGED doc
    /\ UNCHANGED <<input, meant, entry, expansion>>

VisitVersion == Visit(1)

VisitDate == Visit(2)

VisitComments == Visit(3)

VisitNodes == Visit(4)

VisitEdges == Visit(5)

VisitClusters == Visit(6)

VisitProperties == Visit(7)

VisitAttributes == Visit(8)

\* (space0, opt(')')) of parse_tag, then the multispace0 of graph; graph
\* returns here.
CloseTlp ==
    /\ pc = "close"
    /\ cursor' = multispace0(input, tag_close(input, cursor))
    /\ IF entry = "graph"
       THEN /\ pc' = "done"
            /\ out' = Ok(cursor', doc)
       ELSE /\ pc' = "eof"
            /\ UNCHANGED out
    /\ UNCHANGED <<input, meant, entry, expansion, warnings, doc, label>>

\* The eof of Parser::parse; from_str returns here.
CheckEof ==
    /\ pc = "eof"
    /\ \E e \in {eof(input, cursor)} :
          IF e.st = "ok"
          THEN /\ pc' = "done"
               /\ out' = Ok(cursor, doc)
               /\ UNCHANGED <<label, cursor>>
          ELSE Fail(e, "none")
    /\ UNCHANGED <<input, meant, entry, expansion, warnings, doc>>

Assemble ==
    \/ StartGraph
    \/ StartFromStr
    \/ OpenTlp
    \/ VisitVersion
    \/ VisitDate
    \/ VisitComments
    \/ VisitNodes
    \/ VisitEdges
    \/ VisitClusters
    \/ VisitProperties
    \/ VisitAttributes
    \/ CloseTlp
    \/ CheckEof

(***************************************************************************)
(* Specification SpecDoc: the assembler on documents written as a sequence *)
(* of at most MaxSections pieces, in any order and with repetitions, sep   *)
(* after each piece.                                                       *)
(***************************************************************************)
Version23 == Str(<<"2", ".", "3">>)

\* The text of one piece of a document.
Piece(kind) ==
    CASE kind = "version" -> Version23
      [] kind = "date" -> Block(Keyword("date"), Str(<<"d">>))
      [] kind = "comments" -> Block(Keyword("comments"), Str(<<"c">>))
      [] kind = "author" -> Block(Keyword("author"), Str(<<"a">>))
      [] kind = "nodes" -> Block(Keyword("nodes"), <<"0", ".", ".", "1">>)
      [] kind = "edges" -> Block(Keyword("edge"), <<"0", " ", "0", " ", "1">>)
      [] kind = "clusters" ->
            Block(Keyword("cluster"), <<"1", " ">> \o Block(Keyword("nodes"), <<"0">>) \o <<" ">>
                                \o Block(Keyword("edges"), <<"0">>))
      [] kind = "properties" ->
            Block(Keyword("property"),
                  <<"0", " ">> \o PropertyTypes[3] \o <<" ">> \o Str(<<"p">>)
                      \o <<" ">> \o Block(Keyword("default"), Str(<<"a">>) \o <<" ">>
                                                      \o Str(<<"b">>))
                      \o <<" ">> \o Block(Keyword("node"), <<"0", " ">> \o Str(<<"x">>)))
      [] kind = "attributes" ->
            Block(Keyword("graph_attributes"),
                  <<"0", " ", "(">> \o PropertyTypes[4] \o <<" ">>
                      \o Str(<<"n">>) \o <<" ">> \o Str(<<"v">>) \o <<")">>)

PieceKinds == {Sections[k] : k \in 1..Len(Sections)}

RECURSIVE PiecesText(_, _)
\* The pieces, sep after each.
PiecesText(kinds, sep) ==
    IF kinds = <<>> THEN <<>>
    ELSE Piece(Head(kinds)) \o sep \o PiecesText(Tail(kinds), sep)

DocText(d) ==
    <<"(">> \o Keyword("tlp") \o <<" ">> \o PiecesText(d.pieces, d.sep) \o <<")">> \o d.tail

DocCases ==
    {[kind |-> "doc", pieces |-> p, sep |-> sep, tail |-> <<>>] :
        p \in SeqsUpTo(PieceKinds, MaxSections), sep \in {<<"\n">>, <<>>}}

InitDoc ==
    /\ meant \in DocCases
    /\ input = DocText(meant)
    /\ entry = "none"
    /\ out = NoOut
    /\ expansion = NoExpansion
    /\ warnings = 0
    /\ pc = "none"
    /\ cursor = 1
    /\ doc = NoDoc
    /\ label = "none"

SpecDoc == InitDoc /\ [][Assemble]_vars

(***************************************************************************)
(* What a document says, read off its pieces.                              *)
(***************************************************************************)
\* The place of a section in the order the format fixes.
SectionRank(name) ==
    CASE name = "version" -> 1 [] name = "date" -> 2 [] name = "comments" -> 3
      [] name = "nodes" -> 4 [] name = "edges" -> 5 [] name = "clusters" -> 6
      [] name = "properties" -> 7 [] name = "attributes" -> 8

PcRank(p) ==
    CASE p = "none" -> -1 [] p = "open" -> 0 [] p = "close" -> 9
      [] p = "eof" -> 10 [] p \in {"done", "failed"} -> 11
      [] OTHER -> SectionRank(p)

SectionNames ==
    {"version", "date", "comments", "nodes", "edges", "clusters",
     "properties", "attributes"}

\* The sections that may be left out, with the keyword that opens each.
OptionalKeyword(name) ==
    CASE name = "date" -> Keyword("date") [] name = "comments" -> Keyword("comments")
      [] name = "clusters" -> Keyword("cluster") [] name = "properties" -> Keyword("property")
      [] name = "attributes" -> Keyword("graph_attributes")

OptionalSections == {"date", "comments", "clusters", "properties", "attributes"}

\* The sections a document holds at most once.
SingleSections == {"version", "date", "comments", "nodes", "attributes"}

\* A block with keyword kw opens at cursor i of s.
BlockAt(s, i, kw) ==
    /\ At(s, i) = "("
    /\ \A k \in 1..Len(kw) : At(s, i + k) = kw[k]

InOrder(p) ==
    \A k \in 1..(Len(p) - 1) : SectionRank(p[k]) <= SectionRank(p[k + 1])

Repeats(p) ==
    \E j, k \in 1..Len(p) : j < k /\ p[j] = p[k] /\ p[j] \in SingleSections

Holds(p, name) == \E k \in 1..Len(p) : p[k] = name

(***************************************************************************)
(* C5. Fixed section order: the assembler visits the sections only in the  *)
(* order version, date?, comments?, nodes, edges, clusters?, properties?,  *)
(* attributes?, each step moving to the next section and never back; an    *)
(* optional section whose block does not open at the cursor is skipped     *)
(* with the cursor unmoved; a call returns a document only if the text     *)
(* holds the version string and a nodes block; and Graph::from_str returns *)
(* a document only for pieces in that order with version, date, comments,  *)
(* nodes and graph_attributes at most once.                                *)
(***************************************************************************)
C5_FixedSectionOrder ==
    /\ [][/\ pc' # pc => PcRank(pc') > PcRank(pc)
          /\ (pc \in SectionNames /\ pc' \in SectionNames) =>
                PcRank(pc') = PcRank(pc) + 1
          /\ (pc' \in SectionNames /\ pc \notin SectionNames) =>
                (pc = "open" /\ pc' = "version")
          /\ (pc \in OptionalSections /\ pc' # pc
                /\ ~BlockAt(input, cursor, OptionalKeyword(pc))) =>
                (PcRank(pc') = PcRank(pc) + 1 /\ cursor' = cursor)]_vars
    /\ [](pc = "done" =>
            (Holds(meant.pieces, "version") /\ Holds(meant.pieces, "nodes")))
    /\ []((entry = "from_str" /\ pc = "done") =>
            (InOrder(meant.pieces) /\ ~Repeats(meant.pieces)))

\* Graph::from_str has rejected a document whose clusters come after its
\* properties, having parsed everything before them.
C5_Witness ==
    /\ entry = "from_str"
    /\ pc = "failed"
    /\ meant.pieces = <<"version", "nodes", "properties", "clusters">>
    /\ meant.sep = <<"\n">>
    /\ doc.properties # None
    /\ out.st = "backtrack"

\* A document of the version string, a nodes block and edge blocks only.
MinimalDoc(p) ==
    /\ Len(p) >= 2
    /\ p[1] = "version"
    /\ p[2] = "nodes"
    /\ \A k \in 3..Len(p) : p[k] = "edges"

(***************************************************************************)
(* C12. Minimal document: an input holding only the version string, a      *)
(* nodes block and zero or more edge blocks inside (tlp ...) parses, and   *)
(* the document has that version, that node set, the edges in declaration  *)
(* order and every optional field absent: no author, date, comments,       *)
(* clusters, properties or attributes.                                     *)
(***************************************************************************)
C12_MinimalDocument ==
    (meant.kind = "doc" /\ MinimalDoc(meant.pieces)
        /\ pc \in {"done", "failed"}) =>
        /\ out.st = "ok"
        /\ out.val.version = <<"2", ".", "3">>
        /\ Ids_to_vec(out.val.nodes) = <<0, 1>>
        /\ out.val.edges = [k \in 1..(Len(meant.pieces) - 2) |->
                                [id |-> 0, src |-> 0, tgt |-> 1]]
        /\ out.val.author = None
        /\ out.val.date = None
        /\ out.val.comments = None
        /\ out.val.clusters = None
        /\ out.val.properties = None
        /\ out.val.attributes = None

(***************************************************************************)
(* Specification SpecInOrder: the assembler on documents whose pieces are  *)
(* in the order of the format, at most MaxSections of them, followed by a  *)
(* tail after the closing parenthesis.  A piece may be a block with its    *)
(* keyword and a content its parser rejects ("bad_...").                   *)
(***************************************************************************)
PieceOrder ==
    <<"version", "date", "bad_date", "comments", "bad_comments",
      "bad_nb_nodes", "nodes", "bad_nodes", "bad_nb_edges", "edges",
      "bad_edges", "clusters",
      "bad_clusters", "properties", "attributes", "bad_attributes">>

BadPieces ==
    {"bad_date", "bad_comments", "bad_nb_nodes", "bad_nb_edges",
     "bad_clusters", "bad_attributes"}

\* The text of a piece: a section, or a block whose content is not what its
\* keyword asks for.
PieceText(kind) ==
    CASE kind = "bad_date" -> Block(Keyword("date"), <<"d">>)
      [] kind = "bad_comments" -> Block(Keyword("comments"), <<"c">>)
      [] kind = "bad_nb_nodes" -> Block(Keyword("nb_nodes"), <<"x">>)
      [] kind = "bad_nodes" -> Block(Keyword("nodes"), <<"x">>)
      [] kind = "bad_nb_edges" -> Block(Keyword("nb_edges"), <<"x">>)
      [] kind = "bad_edges" -> Block(Keyword("edge"), <<"0", " ", "1">>)
      [] kind = "bad_clusters" -> Block(Keyword("cluster"), <<"x">>)
      [] kind = "bad_attributes" -> Block(Keyword("graph_attributes"), <<"x">>)
      [] OTHER -> Piece(kind)

RECURSIVE Joined(_, _)
\* The pieces, sep after each.
Joined(kinds, sep) ==
    IF kinds = <<>> THEN <<>>
    ELSE PieceText(Head(kinds)) \o sep \o Joined(Tail(kinds), sep)

RECURSIVE Selected(_, _)
\* The pieces of PieceOrder at the places of P, from place k on.
Selected(P, k) ==
    IF k > Len(PieceOrder) THEN <<>>
    ELSE (IF k \in P THEN <<PieceOrder[k]>> ELSE <<>>) \o Selected(P, k + 1)

Tails == {<<>>, <<"\n">>, <<"x">>, <<"\n", "x">>}

InOrderCases ==
    {[kind |-> "doc", pieces |-> Selected(P, 1), sep |-> sep, tail |-> tl] :
        P \in {Q \in SUBSET (1..Len(PieceOrder)) : Cardinality(Q) <= MaxSections},
        sep \in {<<"\n">>, <<>>}, tl \in Tails}

InitInOrder ==
    /\ meant \in InOrderCases
    /\ input = <<"(">> \o Keyword("tlp") \o <<" ">> \o Joined(meant.pieces, meant.sep)
                   \o <<")">> \o meant.tail
    /\ entry = "none"
    /\ out = NoOut
    /\ expansion = NoExpansion
    /\ warnings = 0
    /\ pc = "none"
    /\ cursor = 1
    /\ doc = NoDoc
    /\ label = "none"

SpecInOrder == InitInOrder /\ [][Assemble]_vars

\* Every piece is a section, the version comes first, the nodes are there and
\* a line feed follows each piece.
WellFormedDoc(d) ==
    /\ \A k \in 1..Len(d.pieces) :
          d.pieces[k] \notin BadPieces \cup {"bad_nodes", "bad_edges"}
    /\ Len(d.pieces) >= 2
    /\ d.pieces[1] = "version"
    /\ Holds(d.pieces, "nodes")
    /\ d.sep = <<"\n">>

\* The place in the input of the first character of the tail that is not
\* whitespace (the end of the input when there is none).
TailStart(d, s) ==
    RunEnd(s, Len(s) - Len(d.tail) + 1, MultispaceChars)

(***************************************************************************)
(* C6 as stated.  Terminal acceptor: Graph::from_str succeeds whenever the *)
(* whole (tlp ...) block parses and the whitespace after it is consumed;   *)
(* text remaining after that does not turn the success into a failure.     *)
(***************************************************************************)
C6_NoEndOfInputRequired ==
    (entry = "from_str" /\ pc \in {"done", "failed"}
        /\ graph(input, 1).st = "ok") => out.st = "ok"

(***************************************************************************)
(* C6 as amended.  Terminal acceptor: the parser graph succeeds whenever   *)
(* the whole (tlp ...) block parses and the whitespace after it is         *)
(* consumed, leaving its cursor at the first remaining character, and does *)
(* not require end of input; Graph::from_str, which runs graph through     *)
(* Parser::parse, succeeds exactly when graph succeeds and no text remains *)
(* after that whitespace.                                                  *)
(***************************************************************************)
C6_TerminalAcceptor ==
    (meant.kind = "doc" /\ pc \in {"done", "failed"}) =>
        /\ WellFormedDoc(meant) =>
              /\ out.pos = TailStart(meant, input)
              /\ entry = "graph" => out.st = "ok"
              /\ entry = "from_str" =>
                    (out.st = "ok" <=> TailStart(meant, input) = End(input))
        /\ entry = "from_str" =>
              (out.st = "ok" <=>
                  (graph(input, 1).st = "ok" /\ graph(input, 1).pos = End(input)))

\* Graph::from_str has failed on a well-formed document followed by text, at
\* the first character of that text.
C6_Witness ==
    /\ entry = "from_str"
    /\ pc = "failed"
    /\ WellFormedDoc(meant)
    /\ meant.tail = <<"\n", "x">>
    /\ out.st = "backtrack"
    /\ out.pos = Len(input)
    /\ doc.nodes # <<>>

(***************************************************************************)
(* C8 as stated.  Absent vs malformed section: an optional section (date,  *)
(* comments, nb_nodes, nb_edges, clusters, graph_attributes) whose keyword *)
(* is present but whose content is invalid is treated as malformed, not as *)
(* absent: the assembler returns no document for a text holding one.       *)
(***************************************************************************)
C8_MalformedNotAbsent ==
    (meant.kind = "doc" /\ pc \in {"done", "failed"}
        /\ \E k \in 1..Len(meant.pieces) : meant.pieces[k] \in BadPieces) =>
        out.st # "ok"

\* The pieces are a document but for its nodes block, which is malformed.
MalformedNodes(p) ==
    /\ Len(p) >= 1
    /\ p[1] = "version"
    /\ Holds(p, "bad_nodes") /\ ~Holds(p, "nodes") /\ ~Holds(p, "bad_edges")
    /\ \A k \in 1..Len(p) : p[k] \notin BadPieces

\* The pieces are a document but for one edge block, which is malformed.
MalformedEdge(p) ==
    /\ Len(p) >= 1
    /\ p[1] = "version"
    /\ Holds(p, "nodes") /\ ~Holds(p, "bad_nodes") /\ Holds(p, "bad_edges")
    /\ \A k \in 1..Len(p) : p[k] \notin BadPieces

(***************************************************************************)
(* C13. Section-labelled hard failure: when Graph::from_str rejects a      *)
(* document because its node section or one of its edge blocks cannot be   *)
(* matched, the error carries the context label of that section (the nodes *)
(* label for a malformed node section, the edges label for a malformed     *)
(* edge block), and no partial document is returned.                       *)
(***************************************************************************)
C13_SectionLabelledFailure ==
    (entry = "from_str" /\ meant.kind = "doc" /\ pc \in {"done", "failed"}) =>
        /\ MalformedNodes(meant.pieces) =>
              (out.st # "ok" /\ out.val = "error" /\ label = "Nodes parsing")
        /\ MalformedEdge(meant.pieces) =>
              (out.st # "ok" /\ out.val = "error" /\ label = "Edges parsing")

(***************************************************************************)
(* Specification SpecProp: the property parser on property blocks written  *)
(* token by token with whitespace ws between the tokens: a graph id, each  *)
(* type keyword, a name, the default pair (or none) and 0..MaxOverrides    *)
(* override blocks; last is what stands before the closing parenthesis.    *)
(***************************************************************************)
PropStrings == {<<>>, <<"a">>, <<"(", "0", ",", "0", ")">>}

\* The k-th override of a block: node ids descend, so textual order is not
\* the order of the ids.
Override(k) == [id |-> MaxOverrides - k, value |-> <<"v">> \o Numeral(k)]

RECURSIVE OverridesText(_, _, _)
\* The override blocks k..n, ws before each.
OverridesText(k, n, ws) ==
    IF k > n THEN <<>>
    ELSE ws \o Block(Keyword("node"), Numeral(Override(k).id) \o <<" ">>
                                        \o Str(Override(k).value))
            \o OverridesText(k + 1, n, ws)

PropText(c) ==
    <<"(">> \o Keyword("property") \o <<" ">> \o Numeral(c.graph_id) \o c.ws
        \o PropertyTypes[c.type] \o c.ws \o Str(c.name)
        \o (IF c.default
            THEN c.ws \o Block(Keyword("default"), Str(c.node_default) \o <<" ">>
                                                     \o Str(c.edge_default))
            ELSE <<>>)
        \o OverridesText(1, c.n, c.ws) \o c.last \o <<")">>

PropCases ==
    {[kind |-> "property", graph_id |-> g, type |-> k, name |-> <<"p">>,
      node_default |-> nd, edge_default |-> ed, default |-> d, n |-> n,
      ws |-> ws, last |-> l] :
        g \in {0, 12}, k \in 1..Len(PropertyTypes), nd \in PropStrings,
        ed \in {<<>>, <<"b">>}, d \in BOOLEAN, n \in 0..MaxOverrides,
        ws \in {<<" ">>, <<"\n">>}, l \in {<<>>, <<" ">>, <<"\n">>}}

InitProp ==
    /\ meant \in PropCases
    /\ input = PropText(meant)
    /\ entry = "none"
    /\ out = NoOut
    /\ expansion = NoExpansion
    /\ warnings = 0
    /\ pc = "none"
    /\ cursor = 1
    /\ doc = NoDoc
    /\ label = "none"

CallProperty == Call("property", property(input, 1))

CallProperties == Call("properties", properties(input, 1))

NextProp == CallProperty \/ CallProperties

SpecProp == InitProp /\ [][NextProp]_vars

EdgeNumbers == {0, 1, 5, 12, 301}

EdgeText(e) ==
    Block(Keyword("edge"),
          Numeral(e.id) \o <<" ">> \o Numeral(e.src) \o <<" ">> \o Numeral(e.tgt))

DeclaredNodes == {0, 1}

DocEdges == [id : {0, 1}, src : {0, 1, 5}, tgt : {0, 1, 5}]

DocClusters ==
    {<<>>} \cup {<<[id |-> 1, node |-> n, edge |-> e]>> : n \in {0, 7}, e \in {0, 9}}

RECURSIVE EdgesText(_)
\* The edge blocks, a line feed after each.
EdgesText(es) ==
    IF es = <<>> THEN <<>>
    ELSE EdgeText(Head(es)) \o <<"\n">> \o EdgesText(Tail(es))

RefsText(c) ==
    <<"(">> \o Keyword("tlp") \o <<" ">> \o Version23 \o <<"\n">>
        \o Block(Keyword("nodes"), <<"0", ".", ".", "1">>) \o <<"\n">>
        \o EdgesText(c.edges)
        \o (IF c.clusters = <<>> THEN <<>>
            ELSE Block(Keyword("cluster"),
                       Numeral(c.clusters[1].id) \o <<" ">>
                           \o Block(Keyword("nodes"), Numeral(c.clusters[1].node))
                           \o <<" ">>
                           \o Block(Keyword("edges"), Numeral(c.clusters[1].edge)))
                   \o <<"\n">>)
        \o <<")">>

EdgeCases ==
    {[kind |-> "edge", edge |-> e] :
        e \in [id : EdgeNumbers, src : EdgeNumbers, tgt : EdgeNumbers]}
    \cup {[kind |-> "refs", edges |-> es, clusters |-> cs] :
            es \in SeqsUpTo(DocEdges, MaxEdges), cs \in DocClusters}

InitEdge ==
    /\ meant \in EdgeCases
    /\ input = IF meant.kind = "edge" THEN EdgeText(meant.edge) ELSE RefsText(meant)
    /\ entry = "none"
    /\ out = NoOut
    /\ expansion = NoExpansion
    /\ warnings = 0
    /\ pc = "none"
    /\ cursor = 1
    /\ doc = NoDoc
    /\ label = "none"

CallEdge == meant.kind = "edge" /\ Call("edge", edge(input, 1))

CallFromStr == meant.kind = "refs" /\ Call("from_str", from_str(input))

NextEdge == CallEdge \/ CallFromStr

SpecEdge == InitEdge /\ [][NextEdge]_vars

\* Some reference of the document is not valid: an endpoint that is no
\* declared node, an edge id declared twice, or a cluster whose node or edge
\* is not one of the document.
DanglingRefs(c) ==
    \/ \E k \in 1..Len(c.edges) :
          c.edges[k].src \notin DeclaredNodes \/ c.edges[k].tgt \notin DeclaredNodes
    \/ \E j, k \in 1..Len(c.edges) : j < k /\ c.edges[j].id = c.edges[k].id
    \/ \E k \in 1..Len(c.clusters) :
          \/ c.clusters[k].node \notin DeclaredNodes
          \/ \A j \in 1..Len(c.edges) : c.edges[j].id # c.clusters[k].edge

(***************************************************************************)
(* C16. Edges are parsed verbatim and never validated: (edge i s t) parses *)
(* to Edge{id: i, src: s, tgt: t}, and a document parses to the same       *)
(* outcome, its edges and clusters as written, whether or not the edge     *)
(* endpoints are declared nodes, the edge ids are unique and the cluster's *)
(* node and edge ids are those of the enclosing scope.                     *)
(***************************************************************************)
C16_EdgesNotValidated ==
    /\ (entry = "edge" /\ meant.kind = "edge") =>
          out = Ok(End(input), meant.edge)
    /\ (entry = "from_str" /\ meant.kind = "refs") =>
          /\ out.st = "ok"
          /\ out.pos = End(input)
          /\ Ids_to_vec(out.val.nodes) = <<0, 1>>
          /\ out.val.edges = meant.edges
          /\ out.val.clusters.some = (meant.clusters # <<>>)
          /\ meant.clusters # <<>> =>
                /\ Len(out.val.clusters.v) = 1
                /\ out.val.clusters.v[1].id = meant.clusters[1].id
                /\ Ids_to_vec(out.val.clusters.v[1].nodes) = <<meant.clusters[1].node>>
                /\ Ids_to_vec(out.val.clusters.v[1].edges) = <<meant.clusters[1].edge>>

\* A document was accepted whose two edges share an id and leave the declared
\* nodes, and whose cluster names a node and an edge the document has not.
C16_Witness ==
    /\ entry = "from_str"
    /\ meant.kind = "refs"
    /\ DanglingRefs(meant)
    /\ meant.edges = <<[id |-> 1, src |-> 5, tgt |-> 0], [id |-> 1, src |-> 1, tgt |-> 5]>>
    /\ meant.clusters = <<[id |-> 1, node |-> 7, edge |-> 9]>>
    /\ out.st = "ok"
    /\ Len(out.val.edges) = 2

(***************************************************************************)
(* Specification SpecBack: the parsers that try alternatives and optional  *)
(* parts, each on its inputs: the identifier-set parsers on the texts of   *)
(* SpecIds, the section parsers on the sections of SpecSect and the        *)
(* assembler on the documents of SpecInOrder.                              *)
(***************************************************************************)
InitBack == InitIds \/ InitSect \/ InitInOrder

NextBack ==
    \/ meant.kind = "text" /\ NextIds
    \/ meant.kind \in {"nodes", "edges"} /\ NextSect
    \/ meant.kind = "doc" /\ Assemble

SpecBack == InitBack /\ [][NextBack]_vars

\* t without its trailing whitespace.
Trim(t) ==
    SubSeq(t, 1, CHOOSE n \in 0..Len(t) :
                     /\ \A k \in (n + 1)..Len(t) : t[k] \in MultispaceChars
                     /\ (n = 0 \/ t[n] \notin MultispaceChars))

RECURSIVE TokenEnd(_, _, _)
\* The cursor after the n-th token of t counted from cursor i.
TokenEnd(t, i, n) ==
    IF n = 0 THEN i
    ELSE TokenEnd(t, RunEndNot(t, RunEnd(t, i, MultispaceChars), MultispaceChars),
                  n - 1)

\* The number of numerals the tokens toks begin with.
NumeralRun(toks) ==
    CHOOSE n \in 0..Len(toks) :
        /\ \A k \in 1..n : IsNumeral(toks[k])
        /\ (n = Len(toks) \/ ~IsNumeral(toks[n + 1]))

\* The text holds no line feed.
OneLine(t) == \A k \in 1..Len(t) : t[k] # "\n"

\* The sections an opt(..) of inner_graph guards and that may come out None.
GuardedSections == {"date", "comments", "clusters", "attributes"}

(***************************************************************************)
(* C17. Backtracking restores the cursor: when an alternative or optional  *)
(* sub-parser fails -- the range alternative of a bloc; the separator and  *)
(* element attempt that ends a list, an id set, the edge list or the       *)
(* cluster forest; the optional date, comments, nb_nodes, nb_edges, line   *)
(* comment, clusters and graph_attributes -- the next alternative or       *)
(* section starts at the cursor the failed attempt started from, and the   *)
(* alternatives are tried in declaration order, the first match winning.   *)
(***************************************************************************)
C17_BacktrackRestoresCursor ==
    /\ [](/\ (meant.kind = "text" /\ entry = "parse_ids_bloc"
                 /\ IsIdSetText(Trim(input))) =>
                LET toks == Tokens(input)
                    n == NumeralRun(toks)
                IN  IF IsRangeText(toks[1])
                    THEN out = Ok(TokenEnd(input, 1, 1), RangeOf(toks[1]))
                    ELSE out = Ok(TokenEnd(input, 1, n),
                                  IdsList([k \in 1..n |-> NumeralValue(toks[k])]))
          /\ (meant.kind = "text" /\ entry = "parse_ids_list"
                 /\ IsIdSetText(Trim(input)) /\ IsNumeral(Tokens(input)[1])) =>
                out.pos = TokenEnd(input, 1, NumeralRun(Tokens(input)))
          /\ (meant.kind = "text" /\ entry = "parse_ids"
                 /\ IsIdSetText(Trim(input))) =>
                /\ out.st = "ok"
                /\ out.pos = Len(Trim(input)) + 1
                /\ Ids_to_vec(out.val) = TextExpansion(input)
          /\ (entry = "nodes_amount_and_ids" /\ meant.kind = "nodes") =>
                /\ BlockAt(input, 1, Keyword("nodes")) =>
                      out = [st |-> nodes_ids(input, 1).st,
                             pos |-> nodes_ids(input, 1).pos,
                             val |-> nodes_ids(input, 1).val]
                /\ (At(input, 1) = ";" /\ OneLine(input)) => out.st = "backtrack"
          /\ (entry = "edges" /\ meant.kind = "edges") =>
                /\ BlockAt(input, 1, Keyword("edge")) =>
                      out = [st |-> edge_list(input, 1).st,
                             pos |-> edge_list(input, 1).pos,
                             val |-> edge_list(input, 1).val]
                /\ (At(input, 1) = ";" /\ OneLine(input)) => out = Ok(1, <<>>)
                /\ (out.st = "ok" /\ out.val # <<>>) => At(input, out.pos - 1) = ")"
          /\ (meant.kind = "doc" /\ pc = "clusters"
                 /\ clusters(input, cursor).st = "ok") =>
                At(input, clusters(input, cursor).pos - 1) = ")")
    /\ [][(meant.kind = "doc" /\ pc \in GuardedSections /\ pc' # pc) =>
             \/ pc' = "failed"
             \/ doc'[pc].some /\ cursor' > cursor
             \/ doc'[pc] = None /\ cursor' = cursor]_vars

\* The date parser read `(date ` and failed on the content; the comments
\* section is about to start at the cursor the date section started from.
C17_Witness ==
    /\ meant.kind = "doc"
    /\ pc = "comments"
    /\ doc.date = None
    /\ BlockAt(input, cursor, Keyword("date"))
    /\ date(input, cursor).st = "backtrack"
    /\ date(input, cursor).pos > cursor

(***************************************************************************)
(* Specification SpecTerm: the id-set parsers of SpecIds, the section      *)
(* parsers of SpecSect, the assembler on the documents of SpecDoc of at    *)
(* most MaxTermPieces pieces, the cluster parsers on the trees of          *)
(* SpecCluster of at most MaxTermClusters clusters and the property        *)
(* parsers on the string-typed blocks of SpecProp.  The program is         *)
(* sequential and nothing suspends it, so a step that can be taken is      *)
(* taken.                                                                  *)
(***************************************************************************)
InitTerm ==
    \/ InitIds
    \/ InitSect
    \/ InitDoc /\ Len(meant.pieces) <= MaxTermPieces
    \/ InitCluster /\ ForestSize(<<meant.tree>>) <= MaxTermClusters
    \/ /\ InitProp
       /\ meant.graph_id = 0
       /\ meant.type = 1
       /\ meant.node_default = <<"a">>
       /\ meant.edge_default = <<"b">>

NextTerm ==
    \/ meant.kind = "text" /\ NextIds
    \/ meant.kind \in {"nodes", "edges"} /\ NextSect
    \/ meant.kind = "doc" /\ Assemble
    \/ meant.kind = "cluster" /\ NextCluster
    \/ meant.kind = "property" /\ NextProp

SpecTerm == InitTerm /\ [][NextTerm]_vars /\ WF_vars(NextTerm)

\* The call has returned.
Returned ==
    IF meant.kind = "doc" THEN pc \in {"done", "failed"} ELSE entry # "none"

\* The number of places of t where a cluster block opens.
ClusterPrefixes(t) ==
    Cardinality({i \in 1..Len(t) : BlockAt(t, i, Keyword("cluster"))})

\* p is the result of an element of a repetition started at cursor i: when it
\* succeeded, it consumed something.
Advances(p, i) == p.st = "ok" => p.pos > i

(***************************************************************************)
(* C18. Termination: on every input the parse runs to completion, with a   *)
(* document or a failure; every successful iteration of a repetition       *)
(* (blocs, list elements, edges, clusters, properties, overrides,          *)
(* attributes) strictly advances the cursor; and the depth of the cluster  *)
(* recursion never exceeds the number of `(cluster` prefixes of the input. *)
(***************************************************************************)
C18_Termination ==
    /\ <>Returned
    /\ [](Returned => out.st \in {"ok", "backtrack", "assert"})
    /\ [](entry = "none" =>
            \A i \in 1..Len(input) :
                /\ Advances(parse_ids_bloc(input, i), i)
                /\ Advances(ids_list_element(input, i), i)
                /\ Advances(edge(input, i), i)
                /\ Advances(cluster(input, i), i)
                /\ Advances(property(input, i), i)
                /\ Advances(property_for_node(input, i), i)
                /\ Advances(attribute(input, i), i))
    /\ []((entry = "cluster" /\ out.st = "ok") =>
            ParsedDepth(<<out.val>>) <= ClusterPrefixes(input))
    /\ []((entry = "clusters" /\ out.st = "ok") =>
            ParsedDepth(out.val) <= ClusterPrefixes(input))
    /\ []((meant.kind = "doc" /\ doc.clusters.some) =>
            ParsedDepth(doc.clusters.v) <= ClusterPrefixes(input))

\* The cluster parser has returned a tree as deep as the input has cluster
\* prefixes.
C18_Witness ==
    /\ entry = "cluster"
    /\ out.st = "ok"
    /\ ClusterPrefixes(input) = MaxTermClusters
    /\ ParsedDepth(<<out.val>>) = MaxTermClusters

(***************************************************************************)
(* Specification SpecAuthor: the assembler on documents written as a       *)
(* sequence of at most MaxSections pieces, an author block among the       *)
(* kinds of pieces, in any order and with repetitions.                     *)
(***************************************************************************)
AuthorCases ==
    {[kind |-> "doc", pieces |-> p, sep |-> sep, tail |-> <<>>] :
        p \in SeqsUpTo(PieceKinds \cup {"author"}, MaxSections),
        sep \in {<<"\n">>, <<>>}}

InitAuthor ==
    /\ meant \in AuthorCases
    /\ input = DocText(meant)
    /\ entry = "none"
    /\ out = NoOut
    /\ expansion = NoExpansion
    /\ warnings = 0
    /\ pc = "none"
    /\ cursor = 1
    /\ doc = NoDoc
    /\ label = "none"

SpecAuthor == InitAuthor /\ [][Assemble]_vars

\* The document is written with an author block among its sections.
AuthorWritten == Holds(meant.pieces, "author")

(***************************************************************************)
(* C20. Author is never populated: every document produced by the parser   *)
(* has its author field absent; and any input with an `(author "...")`     *)
(* block as a section of the `(tlp ...)` block, at any position, is        *)
(* rejected by Graph::from_str.                                            *)
(***************************************************************************)
C20_AuthorNeverPopulated ==
    /\ doc.author = None
    /\ (pc = "done" /\ out.st = "ok") => out.val.author = None
    /\ (entry = "from_str" /\ AuthorWritten /\ pc \in {"done", "failed"}) =>
          pc = "failed" /\ out.st # "ok" /\ out.val = "error"
    /\ (entry = "from_str" /\ AuthorWritten) =>
          from_str(input).st # "ok"

\* Graph::from_str has rejected a document whose author block follows its
\* node and edge sections: the sections were parsed and the author block was
\* left as unconsumed input.
C20_Witness ==
    /\ entry = "from_str"
    /\ pc = "failed"
    /\ meant.pieces = <<"version", "nodes", "edges", "author">>
    /\ doc.nodes # <<>>
    /\ Len(doc.edges) = 1
    /\ label = "none"
    /\ BlockAt(input, cursor, Keyword("author"))

(***************************************************************************)
(* Specification SpecTag: each of the thirteen parsers built on parse_tag, *)
(* on blocks of its keyword written with and without the closing           *)
(* parenthesis.                                                            *)
(***************************************************************************)
NodesBlock01 == Block(Keyword("nodes"), <<"0", ".", ".", "1">>)

Edge001 == Block(Keyword("edge"), <<"0", " ", "0", " ", "1">>)

ClusterHead == <<"1", " ">> \o Block(Keyword("nodes"), <<"0">>) \o <<" ">>

PropertyHead ==
    <<"0", " ">> \o PropertyTypes[3] \o <<" ">> \o Str(<<"p">>) \o <<" ">>
        \o Block(Keyword("default"), Str(<<"a">>) \o <<" ">> \o Str(<<"b">>))

\* The parsers built on parse_tag, by name, with the keyword of each.
TagKeyword(name) ==
    CASE name = "graph" -> Keyword("tlp")
      [] name = "nodes_ids" -> Keyword("nodes")
      [] name = "edges_ids" -> Keyword("edges")
      [] name = "edge" -> Keyword("edge")
      [] name = "cluster" -> Keyword("cluster")
      [] name = "nb_nodes" -> Keyword("nb_nodes")
      [] name = "nb_edges" -> Keyword("nb_edges")
      [] name = "date" -> Keyword("date")
      [] name = "comments" -> Keyword("comments")
      [] name = "property" -> Keyword("property")
      [] name = "property_default" -> Keyword("default")
      [] name = "property_for_node" -> Keyword("node")
      [] name = "attributes" -> Keyword("graph_attributes")

TaggedParsers ==
    {"graph", "nodes_ids", "edges_ids", "edge", "cluster", "nb_nodes",
     "nb_edges", "date", "comments", "property", "property_default",
     "property_for_node", "attributes"}

\* Contents written for the block of each parser.
TagBodies(name) ==
    CASE name = "graph" ->
            {Version23 \o <<" ">> \o NodesBlock01,
             Version23 \o <<"\n">> \o NodesBlock01 \o <<"\n">> \o Edge001
                 \o <<"\n">>,
             Version23 \o <<" ">> \o <<"(">> \o Keyword("nodes") \o <<" ", "0">>}
      [] name \in {"nodes_ids", "edges_ids"} ->
            {<<"0", ".", ".", "1">>, <<"0", " ", "1">>, <<"5">>}
      [] name = "edge" -> {<<"0", " ", "0", " ", "1">>, <<"2", " ", "1", " ", "0">>}
      [] name = "cluster" ->
            {ClusterHead \o Block(Keyword("edges"), <<"0">>),
             ClusterHead \o Block(Keyword("edges"), <<"0">>) \o <<" ">>
                 \o Block(Keyword("cluster"), <<"2", " ">> \o Block(Keyword("nodes"), <<"1">>)
                                        \o <<" ">> \o Block(Keyword("edges"), <<"1">>)),
             ClusterHead \o <<"(">> \o Keyword("edges") \o <<" ", "0">>}
      [] name \in {"nb_nodes", "nb_edges"} -> {<<"3">>, <<"0">>, <<"1", "2">>}
      [] name \in {"date", "comments"} -> {Str(<<"d">>), Str(<<>>), Str(<<"a", " ", "b">>)}
      [] name = "property" ->
            {PropertyHead \o <<" ">> \o Block(Keyword("node"), <<"0", " ">> \o Str(<<"x">>)),
             PropertyHead \o <<" ">>,
             PropertyHead}
      [] name = "property_default" ->
            {Str(<<"a">>) \o <<" ">> \o Str(<<"b">>),
             Str(<<>>) \o <<" ">> \o Str(<<>>)}
      [] name = "property_for_node" ->
            {<<"0", " ">> \o Str(<<"x">>), <<"1", "\n">> \o Str(<<>>)}
      [] name = "attributes" ->
            {<<"0", " ", "(">> \o PropertyTypes[4] \o <<" ">> \o Str(<<"n">>)
                 \o <<" ">> \o Str(<<"v">>) \o <<")">>,
             <<"0", " ">>, <<"0">>}

Closings == {<<")">>, <<" ", ")">>, <<>>, <<" ">>}

TagCases ==
    {[kind |-> "block", tag |-> c[1], body |-> c[2], closing |-> cl] :
        c \in UNION {{<<name, b>> : b \in TagBodies(name)} : name \in TaggedParsers},
        cl \in Closings}

InitTag ==
    /\ meant \in TagCases
    /\ input = <<"(">> \o TagKeyword(meant.tag) \o <<" ">> \o meant.body
                   \o meant.closing
    /\ entry = "none"
    /\ out = NoOut
    /\ expansion = NoExpansion
    /\ warnings = 0
    /\ pc = "none"
    /\ cursor = 1
    /\ doc = NoDoc
    /\ label = "none"

\* The parser called name on the block written for it.
CallTagged(name, r) == meant.tag = name /\ Call(name, r)

ParseTlp == CallTagged("graph", graph(input, 1))

ParseNodes == CallTagged("nodes_ids", nodes_ids(input, 1))

ParseEdges == CallTagged("edges_ids", edges_ids(input, 1))

ParseEdge == CallTagged("edge", edge(input, 1))

ParseCluster == CallTagged("cluster", cluster(input, 1))

ParseNbNodes == CallTagged("nb_nodes", nb_nodes(input, 1))

ParseNbEdges == CallTagged("nb_edges", nb_edges(input, 1))

ParseDate == CallTagged("date", date(input, 1))

ParseComments == CallTagged("comments", comments(input, 1))

ParseProperty == CallTagged("property", property(input, 1))

ParseDefault == CallTagged("property_default", property_default(input, 1))

ParseNode == CallTagged("property_for_node", property_for_node(input, 1))

ParseAttributes == CallTagged("attributes", attributes(input, 1))

NextTag ==
    \/ ParseTlp
    \/ ParseNodes
    \/ ParseEdges
    \/ ParseEdge
    \/ ParseCluster
    \/ ParseNbNodes
    \/ ParseNbEdges
    \/ ParseDate
    \/ ParseComments
    \/ ParseProperty
    \/ ParseDefault
    \/ ParseNode
    \/ ParseAttributes

SpecTag == InitTag /\ [][NextTag]_vars

\* The parser called name, run on the text t.
Parsed(name, t) ==
    CASE name = "graph" -> graph(t, 1)
      [] name = "nodes_ids" -> nodes_ids(t, 1)
      [] name = "edges_ids" -> edges_ids(t, 1)
      [] name = "edge" -> edge(t, 1)
      [] name = "cluster" -> cluster(t, 1)
      [] name = "nb_nodes" -> nb_nodes(t, 1)
      [] name = "nb_edges" -> nb_edges(t, 1)
      [] name = "date" -> date(t, 1)
      [] name = "comments" -> comments(t, 1)
      [] name = "property" -> property(t, 1)
      [] name = "property_default" -> property_default(t, 1)
      [] name = "property_for_node" -> property_for_node(t, 1)
      [] name = "attributes" -> attributes(t, 1)

RECURSIVE Depth(_, _)
\* The number of parentheses open after the first k characters of t.
Depth(t, k) ==
    IF k = 0 THEN 0
    ELSE Depth(t, k - 1) + (IF t[k] = "(" THEN 1 ELSE IF t[k] = ")" THEN -1 ELSE 0)

\* t ends in the parenthesis that closes the block its first character opens.
EndsInOwnClosing(t) ==
    /\ Len(t) >= 2
    /\ t[1] = "("
    /\ t[Len(t)] = ")"
    /\ Depth(t, Len(t)) = 0
    /\ \A k \in 1..(Len(t) - 1) : Depth(t, k) > 0

(***************************************************************************)
(* C7. Optional closing parenthesis: for each of the thirteen tagged       *)
(* blocks, when a text T ending in the block's closing ")" is accepted     *)
(* whole with value v by the block's parser, T without that ")" is         *)
(* accepted whole by the same parser with the same value v.                *)
(***************************************************************************)
C7_OptionalClosingParen ==
    (entry \in TaggedParsers /\ meant.kind = "block" /\ out.st = "ok"
        /\ out.pos = End(input) /\ EndsInOwnClosing(input)) =>
        /\ Parsed(entry, SubSeq(input, 1, Len(input) - 1)).st = "ok"
        /\ Parsed(entry, SubSeq(input, 1, Len(input) - 1)).pos = Len(input)
        /\ Parsed(entry, SubSeq(input, 1, Len(input) - 1)).val = out.val

\* A property block ending in its own closing parenthesis was accepted whole.
C7_Witness ==
    /\ entry = "property"
    /\ meant.kind = "block"
    /\ meant.closing = <<")">>
    /\ out.st = "ok"
    /\ out.pos = End(input)
    /\ EndsInOwnClosing(input)
    /\ Len(out.val.nodes_property) = 1

====
